---- MODULE Spec2Model ----
(***************************************************************************)
(* Asteroid-impact and planetary-defence demonstrator: the numerical core  *)
(* (N-body integrator, impact consequences, deflection models, Kepler      *)
(* solver) and the population-density cache of the calling layer.          *)
(*                                                                         *)
(* The JavaScript sources compute in IEEE doubles.  The integrator and the  *)
(* impact model are computed in scaled integers (every section states its  *)
(* units); the deflection models and the Kepler solver are computed in a   *)
(* four-digit decimal floating point with NaN and the infinities.          *)
(***************************************************************************)
EXTENDS Integers, Sequences, FiniteSets, TLC

VARIABLES
    nbody,      \* runSimulation of Visualization3D.jsx: the integrator state
    impact,     \* calculateEffects of the impact map: params, results, casualties
    popCache,   \* PopulationDataCache: cache, pendingRequests, promises, callers
    wizard,     \* DeflectionWizard.jsx: parameters and simulationResults
    sweep,      \* a momentum sweep over the kinetic model and scriptB.js
    kepler,     \* keplerSolve / KeplerSolve: one call, iteration by iteration
    orbit,      \* the simulation form of the orbit plotter: one submit, step by step
    mitigation, \* MitigationVisualization3D.jsx: one mounted scene, frame by frame
    simulator,  \* the impact map of MITIGATION_ENHANCEMENTS.md: marker and lookups
    context,    \* the simulation context (reducer state) and the Simulation page
    nav         \* DeflectionWizard.jsx: the step, the search and the two timers

vars == <<nbody, impact, popCache, wizard, sweep, kepler, orbit, mitigation, simulator, context, nav>>

----------------------------------------------------------------------------
(* Shared arithmetic helpers. *)

Abs(x) == IF x < 0 THEN -x ELSE x

Max2(a, b) == IF a >= b THEN a ELSE b

Min2(a, b) == IF a <= b THEN a ELSE b

RECURSIVE SqrtSearch(_, _, _)
SqrtSearch(n, lo, hi) ==
    IF lo >= hi THEN lo
    ELSE LET mid == (lo + hi + 1) \div 2
         IN  IF mid * mid <= n THEN SqrtSearch(n, mid, hi)
             ELSE SqrtSearch(n, lo, mid - 1)

\* Math.sqrt on a non-negative integer, rounded down.
ISqrt(n) == SqrtSearch(n, 0, Min2(n, 46340))

\* F applied to the value of v, which is computed once.
Bind(v, F(_)) == CHOOSE y \in {F(x) : x \in {v}} : TRUE

\* Math.round: the nearest integer, halves rounded up, of num / den (den > 0).
RoundDiv(num, den) == num \div den + (IF 2 * (num % den) >= den THEN 1 ELSE 0)


(***************************************************************************)
(* JavaScript numbers.  A double is modelled as a decimal floating-point   *)
(* number with four significant digits: kind "fin" is sig * 10^exp with    *)
(* sig = 0 or 1000 <= |sig| <= 9999, kind "inf" carries its sign in sig,   *)
(* and kind "nan" is NaN.  Results are rounded to four digits as a double  *)
(* rounds to fifty-three bits; the sign of a zero is not kept.             *)
(***************************************************************************)

JsNaN == [kind |-> "nan", sig |-> 0, exp |-> 0]

JsInfinity(sign) == [kind |-> "inf", sig |-> sign, exp |-> 0]

JsZero == [kind |-> "fin", sig |-> 0, exp |-> 0]

SignOf(n) == IF n > 0 THEN 1 ELSE IF n < 0 THEN -1 ELSE 0

\* Rounds sig * 10^exp to four significant digits.
RECURSIVE Normalize(_, _)
Normalize(sig, exp) ==
    IF sig = 0 THEN JsZero
    ELSE IF Abs(sig) >= 10000
         THEN Normalize(SignOf(sig) * RoundDiv(Abs(sig), 10), exp + 1)
    ELSE IF Abs(sig) < 1000 THEN Normalize(sig * 10, exp - 1)
    ELSE IF exp > 305 THEN JsInfinity(SignOf(sig))
    ELSE IF exp < -327 THEN JsZero
    ELSE [kind |-> "fin", sig |-> sig, exp |-> exp]

\* The number literal or parsed input sig * 10^exp.
Js(sig, exp) == Normalize(sig, exp)

JsIsFinite(a) == a.kind = "fin"

JsNeg(a) == [a EXCEPT !.sig = -a.sig]

\* Math.abs
JsAbs(a) == [a EXCEPT !.sig = Abs(a.sig)]

\* a * b
JsMul(a, b) ==
    IF a.kind = "nan" \/ b.kind = "nan" THEN JsNaN
    ELSE IF a.kind = "inf" \/ b.kind = "inf"
         THEN IF a.sig = 0 \/ b.sig = 0 THEN JsNaN
              ELSE JsInfinity(SignOf(a.sig) * SignOf(b.sig))
    ELSE Normalize(a.sig * b.sig, a.exp + b.exp)

\* a / b
JsDiv(a, b) ==
    IF a.kind = "nan" \/ b.kind = "nan" THEN JsNaN
    ELSE IF a.kind = "inf"
         THEN IF b.kind = "inf" THEN JsNaN
              ELSE JsInfinity(IF b.sig < 0 THEN -a.sig ELSE a.sig)
    ELSE IF b.kind = "inf" THEN JsZero
    ELSE IF b.sig = 0
         THEN IF a.sig = 0 THEN JsNaN ELSE JsInfinity(SignOf(a.sig))
    ELSE Normalize(SignOf(a.sig) * SignOf(b.sig)
                       * ((Abs(a.sig) * 100000) \div Abs(b.sig)),
                   a.exp - b.exp - 5)

\* a + b
JsAdd(a, b) ==
    IF a.kind = "nan" \/ b.kind = "nan" THEN JsNaN
    ELSE IF a.kind = "inf"
         THEN IF b.kind = "inf" /\ b.sig # a.sig THEN JsNaN ELSE a
    ELSE IF b.kind = "inf" THEN b
    ELSE IF a.sig = 0 THEN b
    ELSE IF b.sig = 0 THEN a
    ELSE IF a.exp >= b.exp
         THEN IF a.exp - b.exp > 4 THEN a
              ELSE Normalize(a.sig * 10^(a.exp - b.exp) + b.sig, b.exp)
    ELSE IF b.exp - a.exp > 4 THEN b
         ELSE Normalize(b.sig * 10^(b.exp - a.exp) + a.sig, a.exp)

\* a - b
JsSub(a, b) == JsAdd(a, JsNeg(b))

\* a > b (false when either is NaN)
JsGt(a, b) ==
    /\ a.kind # "nan" /\ b.kind # "nan"
    /\ ~(a.kind = "inf" /\ b.kind = "inf" /\ a.sig = b.sig)
    /\ JsSub(a, b).sig > 0

\* a >= b
JsGe(a, b) ==
    /\ a.kind # "nan" /\ b.kind # "nan"
    /\ \/ a.kind = "inf" /\ b.kind = "inf" /\ a.sig = b.sig
       \/ JsSub(a, b).kind # "nan" /\ JsSub(a, b).sig >= 0

\* a < b
JsLt(a, b) == JsGt(b, a)

\* The integer nearest to the square root of n.
NearestSqrt(n) == LET s == ISqrt(n) IN IF n - s * s > s THEN s + 1 ELSE s

\* Math.sqrt, correctly rounded.
JsSqrt(a) ==
    IF a.kind = "nan" \/ a.sig < 0 THEN JsNaN
    ELSE IF a.kind = "inf" \/ a.sig = 0 THEN a
    ELSE IF a.exp % 2 = 0
         THEN Normalize(NearestSqrt(a.sig * 10000), (a.exp - 4) \div 2)
         ELSE Normalize(NearestSqrt(a.sig * 100000), (a.exp - 5) \div 2)

\* Math.round: to the nearest integer, halves upward.
JsRound(a) ==
    IF a.kind # "fin" \/ a.exp >= 0 THEN a
    ELSE IF a.exp < -5 THEN JsZero
    ELSE Normalize(RoundDiv(a.sig, 10^(-a.exp)), 0)

\* Math.PI
MathPI == Js(3142, -3)

\* Math.atan: an angle is kept by its tangent; atan(+-Infinity) is the
\* double nearest to +-PI/2.
MathAtan(x) == [tangent |-> x]

\* Math.tan: the tangent of the double nearest to PI/2 is 1.633e16.
MathTan(angle) ==
    IF angle.tangent.kind = "inf" THEN Normalize(angle.tangent.sig * 1633, 13)
    ELSE angle.tangent

\* (x * 10^d) mod m, without forming x * 10^d.
RECURSIVE MulPowMod(_, _, _)
MulPowMod(x, d, m) == IF d = 0 THEN x % m ELSE MulPowMod((x % m) * 10, d - 1, m)

\* a % b of JavaScript: the remainder has the sign of the dividend.
JsRem(a, b) ==
    IF a.kind # "fin" \/ b.kind = "nan" \/ b.sig = 0 THEN JsNaN
    ELSE IF b.kind = "inf" \/ a.sig = 0 THEN a
    ELSE IF a.exp >= b.exp
         THEN Normalize(SignOf(a.sig) * MulPowMod(Abs(a.sig), a.exp - b.exp, Abs(b.sig)),
                        b.exp)
    ELSE IF b.exp - a.exp > 5 THEN a
    ELSE Normalize(SignOf(a.sig) * (Abs(a.sig) % (Abs(b.sig) * 10^(b.exp - a.exp))),
                   a.exp)

\* a %% b of R: the remainder has the sign of the divisor.
RMod(a, b) ==
    LET r == JsRem(a, b)
    IN  IF r.kind = "fin" /\ r.sig # 0 /\ SignOf(r.sig) # SignOf(b.sig)
        THEN JsAdd(r, b)
        ELSE r

\* |x| modulo 2 PI in thousandths of a radian, with 2 PI = 6.284.
Phase(x) ==
    IF x.exp >= -3 THEN MulPowMod(Abs(x.sig), x.exp + 3, 6284)
    ELSE IF x.exp < -8 THEN 0
    ELSE RoundDiv(Abs(x.sig), 10^(-3 - x.exp)) % 6284

\* The sine of a phase in [0, 6284): on [0, PI] the rational approximation
\* 16 p / (5 PI^2 - 4 p) with p = r (PI - r), exact at 0, PI/2 and PI.
SineOfPhase(r) ==
    LET h == IF r <= 3142 THEN r ELSE r - 3142
        p == h * (3142 - h)
        v == JsDiv(Js(16 * p, 0), Js(5 * 3142 * 3142 - 4 * p, 0))
    IN  IF r <= 3142 THEN v ELSE JsNeg(v)

\* Math.sin (NaN for NaN and the infinities)
MathSin(x) ==
    IF x.kind # "fin" THEN JsNaN
    ELSE IF x.sig < 0 THEN JsNeg(SineOfPhase(Phase(x)))
    ELSE SineOfPhase(Phase(x))

\* Math.cos
MathCos(x) ==
    IF x.kind # "fin" THEN JsNaN
    ELSE SineOfPhase((Phase(x) + 1571) % 6284)

\* cos of a phase in [0, 6284)
CosineOfPhase(r) == SineOfPhase((r + 1571) % 6284)

\* The least phase in [lo, hi] whose cosine is at most x (cos falls on [0, PI]).
RECURSIVE AcosSearch(_, _, _)
AcosSearch(x, lo, hi) ==
    IF lo >= hi THEN lo
    ELSE LET mid == (lo + hi) \div 2
         IN  IF JsGt(CosineOfPhase(mid), x) THEN AcosSearch(x, mid + 1, hi)
             ELSE AcosSearch(x, lo, mid)

\* Math.acos: NaN outside [-1, 1], otherwise an angle in [0, PI], with
\* acos(-x) = PI - acos(x).
MathAcos(x) ==
    IF x.kind # "fin" \/ JsGt(JsAbs(x), Js(1, 0)) THEN JsNaN
    ELSE IF x.sig < 0 THEN Js(3142 - AcosSearch(JsNeg(x), 0, 3142), -3)
    ELSE Js(AcosSearch(x, 0, 3142), -3)

\* Math.atan2 for finite arguments: the angle of the point (x, y) in
\* (-PI, PI], found as the arc cosine of x / hypot(x, y) with the sign of y.
MathAtan2(y, x) ==
    IF y.kind = "nan" \/ x.kind = "nan" THEN JsNaN
    ELSE IF y.sig = 0 THEN (IF x.sig < 0 THEN MathPI ELSE JsZero)
    ELSE LET a == MathAcos(JsDiv(x, JsSqrt(JsAdd(JsMul(x, x), JsMul(y, y)))))
         IN  IF y.sig > 0 THEN a ELSE JsNeg(a)

\* Math.sin of degrees * Math.PI / 180, for the angles the inputs take.
MathSinOfDegrees(degrees) ==
    CASE degrees = 90 -> Js(1, 0)
      [] degrees = -90 -> Js(-1, 0)
      [] degrees = 30 -> Js(5, -1)
      [] degrees = 0 -> JsZero

----------------------------------------------------------------------------
(* The value each part of the state has while another part is exercised. *)

ImpactIdle == [phase |-> "idle"]

CacheIdle == [phase |-> "idle"]

WizardIdle == [phase |-> "idle"]

SweepIdle == [phase |-> "idle"]

KeplerIdle == [pc |-> "idle"]

OrbitIdle == [pc |-> "idle"]

MitigationIdle == [pc |-> "idle"]

SimulatorIdle == [pc |-> "idle"]

ContextIdle == [pc |-> "idle"]

NavIdle == [pc |-> "idle"]

----------------------------------------------------------------------------
(* N-body integrator (Visualization3D.jsx).                                *)
(* Units: lengths, times and masses are model units in which G = 1 and the *)
(* softening length eps = 1; vectors are 3-tuples as in the code.          *)

G == 1

eps == 1

\* MASSES: sun, earth, asteroid (the asteroid is the massless test particle).
MASSES == <<200, 20, 0>>

MaxSteps == 4

MaxDt == 2

Vec3Add(a, b) == <<a[1] + b[1], a[2] + b[2], a[3] + b[3]>>

Vec3Sub(a, b) == <<a[1] - b[1], a[2] - b[2], a[3] - b[3]>>

\* The same term with the mass of the body that is accelerated: the bug the
\* asymmetric accumulation must not have.
PairAccelerationOwnMass(positions, masses, i, j) ==
    LET rvec == Vec3Sub(positions[j], positions[i])
        r2 == rvec[1] * rvec[1] + rvec[2] * rvec[2] + rvec[3] * rvec[3] + eps * eps
        r == ISqrt(r2)
    IN  [k \in 1..3 |-> (G * masses[i] * rvec[k]) \div (r2 * r)]

\* One term of the inner loop: the acceleration body j gives body i.
\* The code forms factor = G*masses[j]/(r2*r) and then factor*rvec[k]; the
\* integer model multiplies before it divides, to keep the fraction.
PairAcceleration(positions, masses, i, j) ==
    LET rvec == Vec3Sub(positions[j], positions[i])
        r2 == rvec[1] * rvec[1] + rvec[2] * rvec[2] + rvec[3] * rvec[3] + eps * eps
        r == ISqrt(r2)
    IN  [k \in 1..3 |-> (G * masses[j] * rvec[k]) \div (r2 * r)]

RECURSIVE AccSum(_, _, _, _)
AccSum(positions, masses, i, j) ==
    IF j > Len(positions) THEN <<0, 0, 0>>
    ELSE IF i = j THEN AccSum(positions, masses, i, j + 1)
    ELSE Vec3Add(PairAcceleration(positions, masses, i, j),
                 AccSum(positions, masses, i, j + 1))

calculateAccelerations(positions, masses) ==
    [i \in 1..Len(positions) |-> AccSum(positions, masses, i, 1)]

\* One pass of the velocity-Verlet loop body.
VerletStep(sys, masses, dt) ==
    LET positions == [i \in 1..Len(sys.pos) |->
                        [j \in 1..3 |-> sys.pos[i][j] + sys.vel[i][j] * dt
                                        + (sys.acc[i][j] * dt * dt) \div 2]]
        newAcc == calculateAccelerations(positions, masses)
        velocities == [i \in 1..Len(sys.vel) |->
                        [j \in 1..3 |-> sys.vel[i][j]
                                        + ((sys.acc[i][j] + newAcc[i][j]) * dt) \div 2]]
    IN  [pos |-> positions, vel |-> velocities, acc |-> newAcc]

\* The state before the loop: positions, velocities and the first accelerations.
StartSystem(positions, velocities, masses) ==
    [pos |-> positions, vel |-> velocities,
     acc |-> calculateAccelerations(positions, masses)]

EarthStarts == { <<<<10, 0, 0>>, <<0, 4, 0>>>>, <<<<4, 0, 0>>, <<0, 6, 0>>>>,
                 <<<<0, 6, 0>>, <<-5, 0, 1>>>> }

AsteroidStarts == { <<<<12, 2, 0>>, <<0, 3, 0>>>>, <<<<5, 1, 0>>, <<1, 5, 0>>>>,
                    <<<<-3, 0, 2>>, <<0, -6, 0>>>>, <<<<1, 1, 0>>, <<9, 0, 0>>>> }

NBodyIdle == [dt |-> 0, step |-> 0, started |-> FALSE,
              with |-> <<>>, without |-> <<>>]

\* runSimulation up to the loop, once for the three bodies and once for the
\* two massive bodies alone.
NBodyInit ==
    \E e \in EarthStarts, a \in AsteroidStarts, dt \in 1..MaxDt :
        nbody = [dt |-> dt, step |-> 0, started |-> TRUE,
                 with |-> StartSystem(<<<<0, 0, 0>>, e[1], a[1]>>,
                                      <<<<0, 0, 0>>, e[2], a[2]>>, MASSES),
                 without |-> StartSystem(<<<<0, 0, 0>>, e[1]>>,
                                         <<<<0, 0, 0>>, e[2]>>, SubSeq(MASSES, 1, 2))]

NBodyStep ==
    /\ nbody.started
    /\ nbody.step < MaxSteps
    /\ nbody' = [nbody EXCEPT
                    !.step = @ + 1,
                    !.with = VerletStep(@, MASSES, nbody.dt),
                    !.without = VerletStep(@, SubSeq(MASSES, 1, 2), nbody.dt)]
    /\ UNCHANGED <<impact, popCache, wizard, sweep, kepler, orbit, mitigation, simulator, context, nav>>

\* C1: a body of mass 0 contributes no acceleration: at every step the
\* positions, velocities and accelerations of the massive bodies (sun, earth)
\* integrated with the test particle present equal those integrated without it.
C1_MasslessParticleInert ==
    nbody.started =>
        \A i \in 1..2 :
            /\ nbody.with.pos[i] = nbody.without.pos[i]
            /\ nbody.with.vel[i] = nbody.without.vel[i]
            /\ nbody.with.acc[i] = nbody.without.acc[i]

\* Two steps in, the massive bodies pull on each other and on the particle.
C1_Witness ==
    /\ nbody.started
    /\ nbody.step >= 2
    /\ nbody.with.acc[1] # <<0, 0, 0>>
    /\ nbody.with.acc[2] # <<0, 0, 0>>
    /\ nbody.with.acc[3] # <<0, 0, 0>>
    /\ nbody.with.pos[2] = nbody.without.pos[2]

\* The integrator on its own.
InitNBody ==
    /\ NBodyInit
    /\ impact = ImpactIdle
    /\ popCache = CacheIdle
    /\ wizard = WizardIdle
    /\ sweep = SweepIdle
    /\ kepler = KeplerIdle
    /\ orbit = OrbitIdle
    /\ mitigation = MitigationIdle
    /\ simulator = SimulatorIdle
    /\ context = ContextIdle
    /\ nav = NavIdle

NextNBody == NBodyStep

SpecNBody == InitNBody /\ [][NextNBody]_vars

----------------------------------------------------------------------------
(* Impact consequences (EnhancedAsteroidImpactCasualtySimulation).         *)
(*                                                                         *)
(* The effect formulas are power laws, so the model carries every positive *)
(* quantity x as lg x = 1000 * log10(x) rounded to an integer              *)
(* (milli-decades): a product is a sum, a power a multiple, and < is kept. *)
(* The casualty step works on areas, so it converts the radii to whole     *)
(* kilometres with Pow10 and takes PI as 22/7.                             *)

\* Math.pow(10, r/1000) * 1000 for 0 <= r < 1000, from three digit tables.
Pow10Mantissa(r) ==
    LET t1 == <<1000, 1259, 1585, 1995, 2512, 3162, 3981, 5012, 6310, 7943>>
        t2 == <<1000, 1023, 1047, 1072, 1096, 1122, 1148, 1175, 1202, 1230>>
        t3 == <<10000, 10023, 10046, 10069, 10093, 10116, 10139, 10162, 10186, 10209>>
        a == r \div 100
        b == (r % 100) \div 10
        c == r % 10
    IN  (((t1[a + 1] * t2[b + 1]) \div 1000) * t3[c + 1]) \div 10000

\* Math.pow(10, x/1000), rounded to the nearest integer.
Pow10(x) ==
    LET q == x \div 1000
        m == Pow10Mantissa(x % 1000)
    IN  IF q >= 3 THEN m * 10^(q - 3)
        ELSE IF q >= -2 THEN RoundDiv(m, 10^(3 - q))
        ELSE 0

\* lg of the numeric literals of performCalculations and of this.constants.g.
LgHalf == -301
LgSphere == 622
LgTwo == 301
LgTnt == 9622
LgCollins == 65
LgG == 992
LgSimple == 97
LgComplex == 114
LgDepthFactor == -532
LgFireball == -2699
LgFive == 699
LgTwenty == 1301
LgTransientSwitch == 3477

\* this.mortalityRates, in percent.
mortalityRates == [crater |-> 100, fireball |-> 85, airblast |-> 35,
                   seismic |-> 2, tsunami |-> 45]

\* this.tsunamiParams: the two distance factors as lg, the deep-water
\* threshold as lg.
tsunamiParams == [lgRimWaveDistanceFactor |-> -125,
                  lgCollapseWaveDistanceFactor |-> 398,
                  lgDeepWaterThreshold |-> -301]

\* The slider and select values a scenario is drawn from, each with its lg:
\* diameter (m), velocity (km/s), densities (kg/m^3), sin(angle), depth (m).
Diameters == { [v |-> 10, lg |-> 1000], [v |-> 50, lg |-> 1699], [v |-> 100, lg |-> 2000] }

Velocities == { [v |-> 20, lg |-> 1301], [v |-> 30, lg |-> 1477] }

Densities == { [v |-> 1000, lg |-> 3000], [v |-> 2700, lg |-> 3431], [v |-> 8000, lg |-> 3903] }

\* The values of target-select: 1000 is the ocean option (updateTargetType),
\* 2750 the rock default.
TargetDensities == { [v |-> 1000, lg |-> 3000], [v |-> 2750, lg |-> 3439] }

\* The angle in degrees with lg sin(angle).
Angles == { [v |-> 45, lg |-> -151], [v |-> 90, lg |-> 0] }

WaterDepths == { [v |-> 200, lg |-> 2301], [v |-> 2000, lg |-> 3301] }

\* this.impactLocation by what getPopulationDensity makes of it: a point over
\* the ocean, and two points more than five degrees from every reference
\* city, one beyond 60 degrees of latitude and one between 30 and 60.
Locations == { "ocean", "arctic", "temperate" }

\* getPopulationDensity(latlng).density of the impact map (the cache below
\* has a method of the same name), people per km^2: the values one call
\* can return.  Over the ocean it is 0; for a remote point it is
\* Math.round(Math.random() * 2 + 0.1) beyond 60 degrees, of which 0 and 2
\* are kept, and Math.round(Math.random() * 30 + 5) between 30 and 60
\* degrees, of which 5 and 20 are kept.
mapPopulationDensity(latlng) ==
    CASE latlng = "ocean" -> { 0 }
      [] latlng = "arctic" -> { 0, 2 }
      [] latlng = "temperate" -> { 5, 20 }

\* The value of the time-of-day select, in tenths.
TimeOfDayFactors == { 10 }

\* getParameters: the scenario read from the controls and the location.
getParameters(diameter, density, velocity, angle, targetDensity, waterDepth, timeOfDayFactor, populationDensity, isOceanImpact) ==
    [diameter |-> diameter.v, lgDiameter |-> diameter.lg,
     lgRadius |-> diameter.lg - LgTwo,
     lgMass |-> density.lg + LgSphere + 3 * (diameter.lg - LgTwo),
     density |-> density.v, lgDensity |-> density.lg,
     lgVelocity |-> velocity.lg + 3000,
     angle |-> angle.v, lgSinAngle |-> angle.lg,
     targetDensity |-> targetDensity.v, lgTargetDensity |-> targetDensity.lg,
     waterDepth |-> waterDepth.v, lgWaterDepth |-> waterDepth.lg,
     timeOfDayFactor |-> timeOfDayFactor,
     populationDensity |-> populationDensity,
     isOceanImpact |-> isOceanImpact]

\* calculateTsunamiZones: the four zone radii (lg km); the largest is zone1.
calculateTsunamiZones(tsunami) ==
    LET lgBaseRadius == Max2(tsunami.lgRimWaveDistance,
                             tsunami.lgCollapseWaveDistance) - 3000
    IN  [zone1 |-> lgBaseRadius - 301, zone2 |-> lgBaseRadius - 523,
         zone3 |-> lgBaseRadius - 699, zone4 |-> lgBaseRadius - 1000]

\* The rim wave without the cap: a mutation of rimWaveMaxAmplitude.
rimWaveUncapped(Dtc, H) == Pow10(Dtc - 1149 + 3000)

\* Math.min(Dtc / 14.1, H) in millimetres, for lg Dtc (m) and H in millimetres.
rimWaveMaxAmplitude(Dtc, H) == Min2(Pow10(Dtc - 1149 + 3000), H)

\* calculateTsunamiEffects: amplitudes in millimetres, distances as lg m.
calculateTsunamiEffects(params, impactResults) ==
    LET H == params.waterDepth * 1000
        Dtc == impactResults.lgTransientDiameter
        dtc == Pow10(impactResults.lgCraterDepth + 3000)
        rim == rimWaveMaxAmplitude(Dtc, H)
        collapse == IF params.waterDepth > 2 * params.diameter
                    THEN (6 * Min2(dtc, H)) \div 100
                    ELSE 0
        base == [rimWaveMaxAmplitude |-> rim,
                 collapseWaveMaxAmplitude |-> collapse,
                 lgRimWaveDistance |-> tsunamiParams.lgRimWaveDistanceFactor + Dtc,
                 lgCollapseWaveDistance |-> tsunamiParams.lgCollapseWaveDistanceFactor + Dtc,
                 deepWater |-> params.lgWaterDepth >
                                  (tsunamiParams.lgRimWaveDistanceFactor + Dtc + LgTwo)
                                  + tsunamiParams.lgDeepWaterThreshold,
                 lgTsunamiEnergy |-> impactResults.lgKineticEnergy - 2000]
    IN  [rimWaveMaxAmplitude |-> base.rimWaveMaxAmplitude,
         collapseWaveMaxAmplitude |-> base.collapseWaveMaxAmplitude,
         lgRimWaveDistance |-> base.lgRimWaveDistance,
         lgCollapseWaveDistance |-> base.lgCollapseWaveDistance,
         deepWater |-> base.deepWater,
         lgTsunamiEnergy |-> base.lgTsunamiEnergy,
         zones |-> calculateTsunamiZones(base)]

\* performCalculations: every result as lg, the seismic magnitude in thousandths.
performCalculations(params) ==
    LET lgKineticEnergy == LgHalf + params.lgMass + 2 * params.lgVelocity
        lgTnt == lgKineticEnergy - LgTnt
        lgVi == params.lgVelocity - 3000
        lgTransient == LgCollins
                       + (params.lgDensity - params.lgTargetDensity) \div 3
                       + (78 * params.lgDiameter + 44 * lgVi - 22 * LgG) \div 300
                       + params.lgSinAngle \div 3
        lgFinal == IF lgTransient < LgTransientSwitch
                   THEN lgTransient + LgSimple
                   ELSE lgTransient + LgComplex
        lgFireballRadius == LgFireball + lgKineticEnergy \div 3 - 3000
        magnitude == (67 * lgKineticEnergy) \div 100 - 5870
        physical ==
            [lgKineticEnergy |-> lgKineticEnergy,
             lgTntEquivalent |-> lgTnt,
             lgTransientDiameter |-> lgTransient,
             lgFinalDiameter |-> lgFinal,
             lgCraterDepth |-> LgDepthFactor + (301 * lgFinal) \div 1000,
             lgFireballRadius |-> lgFireballRadius,
             lgThermalRange |-> lgFireballRadius + LgFive,
             seismicMagnitude |-> magnitude,
             lgSeismicRange |-> (magnitude - 3000) \div 3 + 1000,
             lgAirblastRange |-> lgTnt \div 3 + LgTwo,
             lgEjectaRange |-> lgFinal + LgTwenty - 3000,
             lgRecurrenceInterval |-> 9000 + (78 * (lgKineticEnergy - 15623)) \div 100]
    IN  [physical |-> physical,
         hasTsunami |-> params.isOceanImpact,
         tsunami |-> IF params.isOceanImpact
                     THEN calculateTsunamiEffects(params, physical)
                     ELSE [none |-> TRUE]]

\* Math.PI * Math.pow(radiusKm, 2), in whole km^2.
DiscArea(radiusKm) == (22 * radiusKm * radiusKm) \div 7

\* Every exposed person counted as a casualty: a mutation of ApplyRate.
ApplyFullRate(population, rate) == population

\* Math.round(population * mortalityRate) for a rate in percent, without
\* forming the product population * rate.
ApplyRate(population, rate) ==
    (population \div 100) * rate + RoundDiv((population % 100) * rate, 100)

\* populationDensity is people per 10 km^2 here (density * timeOfDayFactor in tenths).
calculateZoneCasualties(radiusKm, populationDensity10, mortalityRate) ==
    LET area == DiscArea(radiusKm)
        population10 == area * populationDensity10
    IN  [radius |-> radiusKm, area |-> area,
         population |-> RoundDiv(population10, 10),
         casualties |-> RoundDiv(ApplyRate(population10, mortalityRate), 10)]

calculateAnnularCasualties(innerRadiusKm, outerRadiusKm, populationDensity10, mortalityRate) ==
    IF outerRadiusKm <= innerRadiusKm
    THEN [radius |-> outerRadiusKm, area |-> 0, population |-> 0, casualties |-> 0]
    ELSE LET area == DiscArea(outerRadiusKm) - DiscArea(innerRadiusKm)
             population10 == area * populationDensity10
         IN  [radius |-> outerRadiusKm, area |-> area,
              population |-> RoundDiv(population10, 10),
              casualties |-> RoundDiv(ApplyRate(population10, mortalityRate), 10)]

\* calculateCasualties: the radii in whole km, the density in tenths.
calculateCasualties(params, results) ==
    LET populationDensity10 == params.populationDensity * params.timeOfDayFactor
        craterRadius == Pow10(results.physical.lgFinalDiameter - 3301)
        thermalRadius == Pow10(results.physical.lgThermalRange)
        airblastRadius == Pow10(results.physical.lgAirblastRange)
        seismicRadius == Pow10(results.physical.lgSeismicRange)
        crater == calculateZoneCasualties(craterRadius, populationDensity10,
                                          mortalityRates.crater)
        thermal == calculateAnnularCasualties(craterRadius, thermalRadius,
                       populationDensity10, mortalityRates.fireball)
        airblast == calculateAnnularCasualties(thermalRadius, airblastRadius,
                       populationDensity10, mortalityRates.airblast)
        seismic == calculateAnnularCasualties(airblastRadius, seismicRadius,
                       populationDensity10, mortalityRates.seismic)
        tsunami == IF params.isOceanImpact /\ results.hasTsunami
                   THEN calculateZoneCasualties(
                            Pow10(Max2(Max2(results.tsunami.zones.zone1,
                                            results.tsunami.zones.zone2),
                                       Max2(results.tsunami.zones.zone3,
                                            results.tsunami.zones.zone4))),
                            (populationDensity10 * 3) \div 10,
                            mortalityRates.tsunami)
                   ELSE [radius |-> 0, area |-> 0, population |-> 0, casualties |-> 0]
    IN  [crater |-> crater, thermal |-> thermal, airblast |-> airblast,
         seismic |-> seismic, tsunami |-> tsunami,
         total |-> crater.casualties + thermal.casualties + airblast.casualties
                   + seismic.casualties + tsunami.casualties,
         populationExposed |-> crater.population + thermal.population
                               + airblast.population + seismic.population
                               + tsunami.population,
         affectedArea |-> DiscArea(seismicRadius)]

\* The controls of two parameter records agree (everything getParameters
\* reads from the page; the density is not a control).
SameControls(p, q) == [p EXCEPT !.populationDensity = 0] = [q EXCEPT !.populationDensity = 0]

\* calculateEffects: the button reads the parameters and arms the 2 s timer.
\* The casualty results of the last run stay in place until the timer
\* overwrites them; `previous` remembers them when this run repeats the last
\* run's controls and location.
calculateEffects ==
    /\ impact.phase \in {"ready", "done"}
    /\ \E diameter \in Diameters, density \in Densities, velocity \in Velocities,
          angle \in Angles, targetDensity \in TargetDensities,
          waterDepth \in WaterDepths, factor \in TimeOfDayFactors,
          impactLocation \in Locations :
          \E populationDensity \in mapPopulationDensity(impactLocation) :
            LET params == getParameters(diameter, density, velocity, angle,
                                        targetDensity, waterDepth, factor,
                                        populationDensity, impactLocation = "ocean")
                repeats == /\ impact.phase = "done"
                           /\ impact.impactLocation = impactLocation
                           /\ SameControls(impact.params, params)
            IN  impact' = [phase |-> "calculating",
                           impactLocation |-> impactLocation,
                           params |-> params,
                           previous |-> IF repeats
                                        THEN [held |-> TRUE, casualties |-> impact.casualties]
                                        ELSE [held |-> FALSE]]
    /\ UNCHANGED <<nbody, popCache, wizard, sweep, kepler, orbit, mitigation, simulator, context, nav>>

\* The timer callback: performCalculations, then calculateCasualties.
effectsTimer ==
    /\ impact.phase = "calculating"
    /\ LET results == performCalculations(impact.params)
       IN  impact' = [phase |-> "done",
                      impactLocation |-> impact.impactLocation,
                      params |-> impact.params,
                      previous |-> impact.previous,
                      results |-> results,
                      casualties |-> calculateCasualties(impact.params, results)]
    /\ UNCHANGED <<nbody, popCache, wizard, sweep, kepler, orbit, mitigation, simulator, context, nav>>

ImpactInit == impact = [phase |-> "ready"]

\* drawEffectZones: the radius of each damage zone, as lg km.
effectZoneRadii(results) ==
    [crater |-> results.physical.lgFinalDiameter - 3301,
     fireball |-> results.physical.lgThermalRange,
     airblast |-> results.physical.lgAirblastRange,
     ejecta |-> results.physical.lgEjectaRange,
     seismic |-> results.physical.lgSeismicRange]

\* The four zones of the casualty chain, innermost first as the code chains them.
CasualtyChain == <<"crater", "thermal", "airblast", "seismic">>

\* Zone i of the chain counts as smaller than zone j when its radius is
\* smaller, or equal and it comes earlier in the chain.
SmallerZone(c, i, j) ==
    \/ c[CasualtyChain[i]].radius < c[CasualtyChain[j]].radius
    \/ c[CasualtyChain[i]].radius = c[CasualtyChain[j]].radius /\ i < j

\* The radius of the largest zone smaller than zone j (0 when there is none).
InnerRadius(c, j) ==
    LET smaller == { i \in 1..4 : SmallerZone(c, i, j) }
    IN  IF smaller = {} THEN 0
        ELSE LET i == CHOOSE k \in smaller : \A m \in smaller : m = k \/ SmallerZone(c, m, k)
             IN  c[CasualtyChain[i]].radius

\* C2: every zone's casualty count is taken on the annulus between its own
\* radius and the radius of the largest smaller zone, so the annuli of the
\* zones that enter the total never overlap.
C2_AnnulusExcludesSmallerZones ==
    impact.phase = "done" =>
        \A j \in 1..4 :
            impact.casualties[CasualtyChain[j]].area =
                DiscArea(impact.casualties[CasualtyChain[j]].radius)
                - DiscArea(InnerRadius(impact.casualties, j))

\* The regime switch of the documented calculateImpact, 3.200 km, as lg m.
LgRegimeSwitch == 3505

\* The documented simple-crater depth over the transient diameter, as lg:
\* 1 / (2 * sqrt 2) - 2.8 * 0.032 * 1.25 * 1.03584 + 0.03584 = 0.2692.
LgSimpleDepth == -570

\* craterDepth of the simple branch: Dtc / (2 * 2^0.5) - 2.8 * 0.032 *
\* finalDiameter * 1.03584 + 0.03584 * Dtc with finalDiameter = 1.25 * Dtc.
simpleCraterDepth(lgTransient) == lgTransient + LgSimpleDepth

\* craterDepth of the complex branch: 0.294 * finalDiameter^0.301.
complexCraterDepth(lgFinal) == LgDepthFactor + (301 * lgFinal) \div 1000

\* C21: a transient diameter below 3.2 km takes the simple-crater final
\* diameter and the simple-crater depth, one at or above 3.2 km the
\* complex-crater final diameter and depth; the two depths are different
\* formulas (compared to within a hundredth of a decade).
C21_RegimeSelectsDiameterAndDepth ==
    impact.phase = "done" =>
        LET r == impact.results.physical
        IN  IF r.lgTransientDiameter < LgRegimeSwitch
            THEN /\ r.lgFinalDiameter = r.lgTransientDiameter + LgSimple
                 /\ Abs(r.lgCraterDepth - simpleCraterDepth(r.lgTransientDiameter)) <= 10
            ELSE /\ r.lgFinalDiameter # r.lgTransientDiameter + LgSimple
                 /\ Abs(r.lgCraterDepth - complexCraterDepth(r.lgFinalDiameter)) <= 10

\* C3: the zone areas used for the casualties add up to the seismic disc,
\* PI * seismicRadius^2 (the code's affectedArea).
C3_AreasSumToSeismicDisc ==
    impact.phase = "done" =>
        impact.casualties.crater.area + impact.casualties.thermal.area
        + impact.casualties.airblast.area + impact.casualties.seismic.area
            = impact.casualties.affectedArea

\* C4: the zone radii are nested crater < fireball/thermal < air-blast <
\* ejecta <= seismic.
C4_ZonesStrictlyNested ==
    impact.phase = "done" =>
        LET z == effectZoneRadii(impact.results)
        IN  /\ z.crater < z.fireball
            /\ z.fireball < z.airblast
            /\ z.airblast < z.ejecta
            /\ z.ejecta <= z.seismic

\* The zones of the casualty results with the mortality rate each is given.
CasualtyZones == { <<"crater", "crater">>, <<"thermal", "fireball">>, <<"airblast", "airblast">>, <<"seismic", "seismic">>, <<"tsunami", "tsunami">> }

\* |casualties - population * rate / 100| <= 1, for a rate in percent.
WithinOnePerson(casualties, population, rate) ==
    LET q == (population \div 100) * rate + ((population % 100) * rate) \div 100
        rem == ((population % 100) * rate) % 100
    IN  /\ q >= casualties - 1
        /\ q < casualties + 1 \/ (q = casualties + 1 /\ rem = 0)

C15_RepeatedRunSameResults ==
    (impact.phase = "done" /\ impact.previous.held) =>
        impact.casualties = impact.previous.casualties

\* C16: where no population density is known for the impact point (a remote
\* point, away from every reference city) the calculation works from a zero
\* density; it never makes up a value.
C16_NoDensityMeansZero ==
    (impact.phase \in {"calculating", "done"} /\ impact.impactLocation \in {"arctic", "temperate"}) =>
        impact.params.populationDensity = 0

\* C13: the land/ocean selection switches both effects together: an ocean
\* impact computes with the seawater target density and has a tsunami result;
\* a land impact has no tsunami result and no tsunami casualties.
C13_OceanSwitchesDensityAndTsunami ==
    impact.phase = "done" =>
        /\ impact.params.isOceanImpact =>
              /\ impact.params.targetDensity \in {1000, 1025}
              /\ impact.results.hasTsunami
        /\ ~impact.params.isOceanImpact =>
              /\ ~impact.results.hasTsunami
              /\ impact.casualties.tsunami.casualties = 0

\* Ocean scenarios for the tsunami sub-model alone: a kilometre-size body
\* and a one-metre depth are added so that the depth cap binds.
TsunamiDiameters == { [v |-> 100, lg |-> 2000], [v |-> 1000, lg |-> 3000] }

TsunamiDepths == { [v |-> 1, lg |-> 0], [v |-> 200, lg |-> 2301], [v |-> 4000, lg |-> 3602] }

TsunamiInit ==
    \E diameter \in TsunamiDiameters, density \in Densities, velocity \in Velocities,
       angle \in Angles, targetDensity \in TargetDensities, waterDepth \in TsunamiDepths :
        impact = [phase |-> "scenario",
                  params |-> getParameters(diameter, density, velocity, angle, targetDensity,
                                           waterDepth, 10, 0, TRUE)]

\* performCalculations on an ocean scenario, which calls calculateTsunamiEffects.
tsunamiCalculated ==
    /\ impact.phase = "scenario"
    /\ impact' = [phase |-> "calculated", params |-> impact.params,
                  results |-> performCalculations(impact.params)]
    /\ UNCHANGED <<nbody, popCache, wizard, sweep, kepler, orbit, mitigation, simulator, context, nav>>

\* Dtc / 14.1 in millimetres: the rim-wave term before the cap.
RimWaveTerm(results) == Pow10(results.physical.lgTransientDiameter - 1149 + 3000)

\* 0.06 * dtc in millimetres: the collapse-wave term before the cap.
CollapseWaveTerm(results) == (6 * Pow10(results.physical.lgCraterDepth + 3000)) \div 100

InitTsunami ==
    /\ TsunamiInit
    /\ nbody = NBodyIdle
    /\ popCache = CacheIdle
    /\ wizard = WizardIdle
    /\ sweep = SweepIdle
    /\ kepler = KeplerIdle
    /\ orbit = OrbitIdle
    /\ mitigation = MitigationIdle
    /\ simulator = SimulatorIdle
    /\ context = ContextIdle
    /\ nav = NavIdle

NextTsunami == tsunamiCalculated

SpecTsunami == InitTsunami /\ [][NextTsunami]_vars

InitImpact ==
    /\ ImpactInit
    /\ nbody = NBodyIdle
    /\ popCache = CacheIdle
    /\ wizard = WizardIdle
    /\ sweep = SweepIdle
    /\ kepler = KeplerIdle
    /\ orbit = OrbitIdle
    /\ mitigation = MitigationIdle
    /\ simulator = SimulatorIdle
    /\ context = ContextIdle
    /\ nav = NavIdle

NextImpact == calculateEffects \/ effectsTimer

SpecImpact == InitImpact /\ [][NextImpact]_vars


(***************************************************************************)
(* PopulationDataCache (MITIGATION_ENHANCEMENTS.md).  Latitudes and        *)
(* longitudes are in units of 1e-4 degree; a cache key is the pair of the  *)
(* coordinates rounded to 1e-3 degree.  A promise is a record in           *)
(* popCache.promises; a caller is suspended at an await until its promise  *)
(* is resolved and its continuation runs.                                  *)
(***************************************************************************)

MaxCalls == 4

Callers == {1, 2, 3}

\* Coordinates the callers ask for: 4 rounds down, 5 and 14 round to 1.
Lats == {4, 5, 14}

Lons == {10}

\* What fetchPopulationData resolves to: densities from the NASA response
\* or from the regional estimate.
FetchResults == {0, 150}

NoPromise == 0

\* getCacheKey: Math.round(lat * 1000) / 1000 for each coordinate.
getCacheKey(lat, lon) == <<RoundDiv(lat, 10), RoundDiv(lon, 10)>>

CacheKeys == { getCacheKey(lat, lon) : lat \in Lats, lon \in Lons }

\* The state after the constructor: both maps empty, nobody calling.
CacheEmpty ==
    [cache |-> [k \in CacheKeys |-> -1],
     pendingRequests |-> [k \in CacheKeys |-> NoPromise],
     promises |-> <<>>,
     callers |-> [c \in Callers |-> [pc |-> "idle"]],
     calls |-> 0]

\* A lookup that never finds a pending request.
pendingHasNever(pendingRequests, cacheKey) == FALSE

\* this.pendingRequests.has(cacheKey)
pendingHas(pendingRequests, cacheKey) == pendingRequests[cacheKey] # NoPromise

\* A lookup that never finds a stored result.
cacheHasNever(cache, cacheKey) == FALSE

\* this.cache.has(cacheKey)
cacheHas(cache, cacheKey) == cache[cacheKey] # -1

\* getPopulationDensity up to its first await (or its return on a cache hit).
getPopulationDensity(c, lat, lon) ==
    LET cacheKey == getCacheKey(lat, lon)
        p == Len(popCache.promises) + 1
    IN  /\ popCache.callers[c].pc \in {"idle", "returned"}
        /\ popCache.calls < MaxCalls
        /\ IF cacheHas(popCache.cache, cacheKey)
           THEN popCache' = [popCache EXCEPT
                    !.calls = @ + 1,
                    !.callers[c] = [pc |-> "returned", key |-> cacheKey,
                                    promise |-> NoPromise,
                                    result |-> popCache.cache[cacheKey]]]
           ELSE IF pendingHas(popCache.pendingRequests, cacheKey)
           THEN popCache' = [popCache EXCEPT
                    !.calls = @ + 1,
                    !.callers[c] = [pc |-> "awaitPending", key |-> cacheKey,
                                    promise |-> popCache.pendingRequests[cacheKey]]]
           ELSE popCache' = [popCache EXCEPT
                    !.calls = @ + 1,
                    !.promises = Append(@, [key |-> cacheKey, lat |-> lat, lon |-> lon,
                                            state |-> "pending", value |-> -1]),
                    !.pendingRequests[cacheKey] = p,
                    !.callers[c] = [pc |-> "awaitRequest", key |-> cacheKey,
                                    promise |-> p]]
        /\ UNCHANGED <<nbody, impact, wizard, sweep, kepler, orbit, mitigation, simulator, context, nav>>

\* fetchPopulationData settles: the NASA result, or the regional estimate
\* when fetchFromNASA returned null.
fetchPopulationData(p) ==
    /\ popCache.promises[p].state = "pending"
    /\ \E result \in FetchResults :
          popCache' = [popCache EXCEPT !.promises[p].state = "resolved",
                                       !.promises[p].value = result]
    /\ UNCHANGED <<nbody, impact, wizard, sweep, kepler, orbit, mitigation, simulator, context, nav>>

\* The caller that created the request resumes after `await requestPromise`:
\* cache.set, return, and pendingRequests.delete in the finally block.
resumeRequest(c) ==
    LET me == popCache.callers[c]
    IN  /\ me.pc = "awaitRequest"
        /\ popCache.promises[me.promise].state = "resolved"
        /\ popCache' = [popCache EXCEPT
               !.cache[me.key] = popCache.promises[me.promise].value,
               !.pendingRequests[me.key] = NoPromise,
               !.callers[c] = [pc |-> "returned", key |-> me.key,
                               promise |-> me.promise,
                               result |-> popCache.promises[me.promise].value]]
        /\ UNCHANGED <<nbody, impact, wizard, sweep, kepler, orbit, mitigation, simulator, context, nav>>

\* A caller that found the pending request resumes after its await.  Its
\* reaction was registered after the creator's, so it runs after it.
resumePending(c) ==
    LET me == popCache.callers[c]
    IN  /\ me.pc = "awaitPending"
        /\ popCache.promises[me.promise].state = "resolved"
        /\ \A o \in Callers :
              ~(popCache.callers[o].pc = "awaitRequest"
                /\ popCache.callers[o].promise = me.promise)
        /\ popCache' = [popCache EXCEPT
               !.callers[c] = [pc |-> "returned", key |-> me.key,
                               promise |-> me.promise,
                               result |-> popCache.promises[me.promise].value]]
        /\ UNCHANGED <<nbody, impact, wizard, sweep, kepler, orbit, mitigation, simulator, context, nav>>

CacheInit == popCache = CacheEmpty

\* The fetches in flight for a key.
InFlight(cacheKey) ==
    { p \in 1..Len(popCache.promises) :
        /\ popCache.promises[p].key = cacheKey
        /\ popCache.promises[p].state = "pending" }

RequestsFor(promises, cacheKey) == { p \in 1..Len(promises) : promises[p].key = cacheKey }

\* C17: the cache memoizes per rounded (lat, lon) key.  Every caller that has
\* returned holds the result stored under the key of its own coordinates, so
\* keys never share an entry; and once a key has a stored result, no step
\* changes that result or creates another request for that key.
C17_MemoizedPerKey ==
    /\ [](\A c \in Callers :
            popCache.callers[c].pc = "returned" =>
                /\ popCache.cache[popCache.callers[c].key] # -1
                /\ popCache.callers[c].result = popCache.cache[popCache.callers[c].key])
    /\ [][\A k \in CacheKeys :
            popCache.cache[k] # -1 =>
                /\ popCache'.cache[k] = popCache.cache[k]
                /\ RequestsFor(popCache'.promises, k) = RequestsFor(popCache.promises, k)]_vars

\* Two keys hold different stored results, and a caller whose lookup found
\* its key in the cache returned the stored result without a request.
C17_Witness ==
    /\ \E k, j \in CacheKeys :
          /\ popCache.cache[k] # -1 /\ popCache.cache[j] # -1
          /\ popCache.cache[k] # popCache.cache[j]
    /\ \E c \in Callers :
          /\ popCache.callers[c].pc = "returned"
          /\ popCache.callers[c].promise = NoPromise
          /\ popCache.callers[c].result = popCache.cache[popCache.callers[c].key]
          /\ Cardinality(RequestsFor(popCache.promises, popCache.callers[c].key)) = 1

InitCache ==
    /\ CacheInit
    /\ nbody = NBodyIdle
    /\ impact = ImpactIdle
    /\ wizard = WizardIdle
    /\ sweep = SweepIdle
    /\ kepler = KeplerIdle
    /\ orbit = OrbitIdle
    /\ mitigation = MitigationIdle
    /\ simulator = SimulatorIdle
    /\ context = ContextIdle
    /\ nav = NavIdle

NextCache ==
    \/ \E c \in Callers, lat \in Lats, lon \in Lons : getPopulationDensity(c, lat, lon)
    \/ \E p \in 1..Len(popCache.promises) : fetchPopulationData(p)
    \/ \E c \in Callers : resumeRequest(c)
    \/ \E c \in Callers : resumePending(c)

SpecCache == InitCache /\ [][NextCache]_vars


(***************************************************************************)
(* DeflectionWizard.jsx (the React wizard: kinetic impactor and gravity    *)
(* tractor) and scriptB.js (the B-plane page).  Every number is a          *)
(* JavaScript number as modelled above.                                    *)
(***************************************************************************)

\* The values typed into the wizard's number inputs (parseFloat, no minimum):
\* the defaults of useState first.
Sizes == { Js(370, 0), Js(4, 0), JsZero }

ClosestDistances == { Js(30000, 0), Js(6100, 0), Js(6371, 0) }

Speeds == { Js(20, 0), JsZero, Js(1, -3) }

Differentiations == { "undifferentiated", "differentiated" }

ImpactorMasses == { Js(600, 0), Js(300, 0), JsZero, Js(-600, 0) }

ImpactLocations == { Js(1, 0), Js(3, -1) }

TractorDistances == { Js(250, 0), Js(25, 0), JsZero }

\* simulationResults = null
NoResults == [method |-> "none"]

\* useState: the state of the component after its first render.
WizardStart ==
    [currentStep |-> "1", selectedMethod |-> "none", loading |-> FALSE,
     simulationResults |-> NoResults, toast |-> "none",
     asteroidParams |-> [differentiation |-> "undifferentiated",
                         size |-> Js(370, 0), closestDistance |-> Js(30000, 0),
                         speed |-> Js(20, 0), density |-> Js(21, -1),
                         momentumFactor |-> Js(15, -1)],
     kineticParams |-> [impactorMass |-> Js(600, 0), impactorVelocity |-> Js(15, 0),
                        impactLocation |-> Js(1, 0)],
     gravityParams |-> [tractorMass |-> Js(20000, 0), tractorDistance |-> Js(250, 0)]]

\* calculateWarningTime (the days; the years are only displayed)
calculateWarningTime(asteroidParams) ==
    LET distance == asteroidParams.closestDistance
        speed == asteroidParams.speed
    IN  IF JsGt(distance, JsZero) /\ JsGt(speed, JsZero)
        THEN LET timeInSeconds == JsDiv(distance, speed)
                 timeInDays == JsDiv(timeInSeconds, Js(86400, 0))
             IN  [days |-> JsRound(timeInDays)]
        ELSE [days |-> JsZero]

\* asteroidVolume * asteroidDensity, as both calculations compute it
asteroidMassOf(asteroidParams) ==
    LET asteroidRadius == JsDiv(asteroidParams.size, Js(2, 0))
        asteroidVolume == JsMul(JsMul(JsDiv(Js(4, 0), Js(3, 0)), MathPI),
                                JsMul(JsMul(asteroidRadius, asteroidRadius), asteroidRadius))
        asteroidDensity == JsMul(asteroidParams.density, Js(1000, 0))
    IN  JsMul(asteroidVolume, asteroidDensity)

earthRadius == Js(6371, 0)

\* A success test that also accepts a graze.
isSuccessOrGraze(newClosestDist) == JsGe(newClosestDist, earthRadius)

\* success = newClosestDist > earthRadius
isSuccess(newClosestDist) == JsGt(newClosestDist, earthRadius)

\* A deflection that is applied inward.
newClosestDistInward(closestDistance, distanceChange) == JsSub(closestDistance, distanceChange)

\* newClosestDist = asteroidParams.closestDistance + distanceChange
newClosestDist(closestDistance, distanceChange) == JsAdd(closestDistance, distanceChange)

\* calculateKineticDeflection
calculateKineticDeflection(asteroidParams, kineticParams) ==
    LET asteroidMass == asteroidMassOf(asteroidParams)
        impactorMass == kineticParams.impactorMass
        impactorVelocity == JsMul(kineticParams.impactorVelocity, Js(1000, 0))
        beta == asteroidParams.momentumFactor
        locationMultiplier == IF asteroidParams.differentiation = "differentiated"
                              THEN kineticParams.impactLocation
                              ELSE Js(1, 0)
        momentumChange == JsMul(JsMul(beta, impactorMass), impactorVelocity)
        velocityChange == JsMul(JsDiv(momentumChange, asteroidMass), locationMultiplier)
        asteroidSpeed_ms == JsMul(asteroidParams.speed, Js(1000, 0))
        deflectionAngle == MathAtan(JsDiv(velocityChange, asteroidSpeed_ms))
        trajectoryWidth == Js(150, 0)
        scale == Js(250, 0)
        width == JsMul(trajectoryWidth, scale)
        travelDistance == JsSqrt(JsAdd(JsMul(width, width),
                                       JsMul(asteroidParams.closestDistance,
                                             asteroidParams.closestDistance)))
        distanceChange == JsMul(travelDistance, MathTan(deflectionAngle))
        newDistance == newClosestDist(asteroidParams.closestDistance, distanceChange)
    IN  [method |-> "kinetic",
         originalDistance |-> asteroidParams.closestDistance,
         newDistance |-> newDistance,
         success |-> isSuccess(newDistance),
         asteroidMass |-> asteroidMass,
         momentumChange |-> momentumChange,
         velocityChange |-> velocityChange,
         distanceChange |-> distanceChange]

\* calculateGravityTractorDeflection
calculateGravityTractorDeflection(asteroidParams, gravityParams) ==
    LET bigG == Js(6674, -14)
        asteroidMass == asteroidMassOf(asteroidParams)
        tractorMass == gravityParams.tractorMass
        tractorDistance == gravityParams.tractorDistance
        warningTime == calculateWarningTime(asteroidParams)
        tugTime == JsMul(JsMul(warningTime.days, Js(24, 0)), Js(3600, 0))
        force == JsDiv(JsMul(bigG, JsMul(tractorMass, asteroidMass)),
                       JsMul(tractorDistance, tractorDistance))
        acceleration == JsDiv(force, asteroidMass)
        distanceChange == JsDiv(JsMul(JsMul(Js(5, -1), acceleration),
                                      JsMul(tugTime, tugTime)),
                                Js(1000, 0))
        newDistance == newClosestDist(asteroidParams.closestDistance, distanceChange)
    IN  [method |-> "gravity",
         originalDistance |-> asteroidParams.closestDistance,
         newDistance |-> newDistance,
         success |-> isSuccess(newDistance),
         asteroidMass |-> asteroidMass,
         force |-> force,
         acceleration |-> acceleration,
         tugTime |-> tugTime,
         distanceChange |-> distanceChange]

\* "Create Custom Scenario": step 1 to step 2.
createCustomScenario ==
    /\ wizard.currentStep = "1"
    /\ wizard' = [wizard EXCEPT !.currentStep = "2"]
    /\ UNCHANGED <<nbody, impact, popCache, sweep, kepler, orbit, mitigation, simulator, context, nav>>

\* onChange of the size input.
setSize ==
    /\ wizard.currentStep = "2"
    /\ \E size \in Sizes : wizard' = [wizard EXCEPT !.asteroidParams.size = size]
    /\ UNCHANGED <<nbody, impact, popCache, sweep, kepler, orbit, mitigation, simulator, context, nav>>

\* onChange of the closest-distance input.
setClosestDistance ==
    /\ wizard.currentStep = "2"
    /\ \E distance \in ClosestDistances :
          wizard' = [wizard EXCEPT !.asteroidParams.closestDistance = distance]
    /\ UNCHANGED <<nbody, impact, popCache, sweep, kepler, orbit, mitigation, simulator, context, nav>>

\* onChange of the speed input.
setSpeed ==
    /\ wizard.currentStep = "2"
    /\ \E speed \in Speeds : wizard' = [wizard EXCEPT !.asteroidParams.speed = speed]
    /\ UNCHANGED <<nbody, impact, popCache, sweep, kepler, orbit, mitigation, simulator, context, nav>>

\* onChange of the differentiation select.
setDifferentiation ==
    /\ wizard.currentStep = "2"
    /\ \E differentiation \in Differentiations :
          wizard' = [wizard EXCEPT !.asteroidParams.differentiation = differentiation]
    /\ UNCHANGED <<nbody, impact, popCache, sweep, kepler, orbit, mitigation, simulator, context, nav>>

\* "Next: Choose Method": step 2 to step 2.5.
chooseMethodStep ==
    /\ wizard.currentStep = "2"
    /\ wizard' = [wizard EXCEPT !.currentStep = "2.5"]
    /\ UNCHANGED <<nbody, impact, popCache, sweep, kepler, orbit, mitigation, simulator, context, nav>>

\* The two method cards of step 2.5.
selectMethod ==
    /\ wizard.currentStep = "2.5"
    /\ \E method \in {"kinetic", "gravity"} :
          wizard' = [wizard EXCEPT !.selectedMethod = method, !.currentStep = "3"]
    /\ UNCHANGED <<nbody, impact, popCache, sweep, kepler, orbit, mitigation, simulator, context, nav>>

\* onChange of the impactor-mass input.
setImpactorMass ==
    /\ wizard.currentStep = "3" /\ wizard.selectedMethod = "kinetic"
    /\ \E mass \in ImpactorMasses :
          wizard' = [wizard EXCEPT !.kineticParams.impactorMass = mass]
    /\ UNCHANGED <<nbody, impact, popCache, sweep, kepler, orbit, mitigation, simulator, context, nav>>

\* onChange of the impact-location select.
setImpactLocation ==
    /\ wizard.currentStep = "3" /\ wizard.selectedMethod = "kinetic"
    /\ \E location \in ImpactLocations :
          wizard' = [wizard EXCEPT !.kineticParams.impactLocation = location]
    /\ UNCHANGED <<nbody, impact, popCache, sweep, kepler, orbit, mitigation, simulator, context, nav>>

\* onDistanceChange of the tractor positioning component.
setTractorDistance ==
    /\ wizard.currentStep = "3" /\ wizard.selectedMethod = "gravity"
    /\ \E distance \in TractorDistances :
          wizard' = [wizard EXCEPT !.gravityParams.tractorDistance = distance]
    /\ UNCHANGED <<nbody, impact, popCache, sweep, kepler, orbit, mitigation, simulator, context, nav>>

\* runSimulation, up to the timer.
runSimulation ==
    /\ wizard.currentStep = "3"
    /\ wizard' = [wizard EXCEPT !.loading = TRUE, !.currentStep = "4"]
    /\ UNCHANGED <<nbody, impact, popCache, sweep, kepler, orbit, mitigation, simulator, context, nav>>

\* The timer callback of runSimulation.
simulationTimer ==
    /\ wizard.loading
    /\ LET results == IF wizard.selectedMethod = "kinetic"
                      THEN calculateKineticDeflection(wizard.asteroidParams,
                                                      wizard.kineticParams)
                      ELSE calculateGravityTractorDeflection(wizard.asteroidParams,
                                                             wizard.gravityParams)
       IN  wizard' = [wizard EXCEPT !.simulationResults = results,
                                    !.loading = FALSE,
                                    !.toast = "Simulation complete!"]
    /\ UNCHANGED <<nbody, impact, popCache, sweep, kepler, orbit, mitigation, simulator, context, nav>>

\* "Start New Simulation"
startNewSimulation ==
    /\ wizard.currentStep = "4" /\ ~wizard.loading
    /\ wizard.simulationResults # NoResults
    /\ wizard' = [wizard EXCEPT !.currentStep = "1", !.selectedMethod = "none",
                                !.simulationResults = NoResults]
    /\ UNCHANGED <<nbody, impact, popCache, sweep, kepler, orbit, mitigation, simulator, context, nav>>

WizardInit == wizard = WizardStart


\* The computation of the runBtn click handler.
runBPlane(m_ast, v_ast, miss, leadDays, m_imp, v_imp, beta, angleDegrees) ==
    LET leadSec == JsMul(leadDays, Js(86400, 0))
        deltaV == JsDiv(JsMul(JsMul(m_imp, v_imp), JsAdd(Js(1, 0), beta)), m_ast)
        dvy == JsMul(deltaV, MathSinOfDegrees(angleDegrees))
        deflect_km == JsDiv(JsMul(dvy, leadSec), Js(1000, 0))
        finalMiss == JsAdd(miss, deflect_km)
        hit == JsLt(JsAbs(finalMiss), Js(6371, 0))
    IN  [ran |-> TRUE, m_ast |-> m_ast, v_ast |-> v_ast, miss |-> miss,
         leadDays |-> leadDays, m_imp |-> m_imp, v_imp |-> v_imp, beta |-> beta,
         angle |-> angleDegrees,
         deltaV |-> deltaV, deflect_km |-> deflect_km, finalMiss |-> finalMiss,
         hit |-> hit]

\* C6: in every result of the kinetic and of the gravity-tractor calculation
\* the new distance is the original distance plus the distance change, and
\* success is true exactly when the new distance exceeds 6371 km.
C6_NewDistanceAndSuccess ==
    wizard.simulationResults # NoResults =>
        LET r == wizard.simulationResults
        IN  /\ r.originalDistance = wizard.asteroidParams.closestDistance
            /\ r.newDistance = JsAdd(r.originalDistance, r.distanceChange)
            /\ r.success = JsGt(r.newDistance, Js(6371, 0))

\* A gravity-tractor result that lifts an approach at exactly 6371 km to a
\* success.
C6_Witness ==
    /\ wizard.simulationResults # NoResults
    /\ wizard.simulationResults.method = "gravity"
    /\ wizard.simulationResults.originalDistance = Js(6371, 0)
    /\ wizard.simulationResults.distanceChange.sig > 0
    /\ wizard.simulationResults.success

\* A negative mass or a zero velocity among the wizard's inputs.
WizardInputInvalid ==
    \/ wizard.asteroidParams.size.sig < 0
    \/ wizard.asteroidParams.speed.sig = 0
    \/ wizard.selectedMethod = "kinetic" /\ wizard.kineticParams.impactorMass.sig < 0
    \/ wizard.selectedMethod = "gravity" /\ wizard.gravityParams.tractorMass.sig < 0

\* C9: a run with a negative mass or a zero velocity never gets past the
\* entry point (the wizard never reaches the results step with it), and no
\* result holds NaN or Infinity.
C9_InvalidInputRejected ==
    /\ wizard.currentStep = "4" => ~WizardInputInvalid
    /\ wizard.simulationResults # NoResults =>
          /\ JsIsFinite(wizard.simulationResults.distanceChange)
          /\ JsIsFinite(wizard.simulationResults.newDistance)


\* One half of a times T squared, in km, for a = G * tractorMass / d^2 and
\* T = closestDistance / speed, the whole warning time in seconds.
HalfATSquared(asteroidParams, gravityParams) ==
    LET a == JsDiv(JsMul(Js(6674, -14), gravityParams.tractorMass), JsMul(gravityParams.tractorDistance, gravityParams.tractorDistance))
        T == JsDiv(asteroidParams.closestDistance, asteroidParams.speed)
    IN  JsDiv(JsMul(JsMul(Js(5, -1), a), JsMul(T, T)), Js(1000, 0))

\* C22: for a body of positive size and a tractor at a positive distance,
\* a positive warning time gives a gravity-tractor displacement that is
\* positive and is one half of a times T squared (to within one percent).
C22_TractorDisplacementIsHalfATSquared ==
    (/\ wizard.simulationResults # NoResults
     /\ wizard.simulationResults.method = "gravity"
     /\ JsGt(wizard.asteroidParams.size, JsZero)
     /\ JsGt(wizard.gravityParams.tractorDistance, JsZero)
     /\ JsGt(wizard.asteroidParams.closestDistance, JsZero)
     /\ JsGt(wizard.asteroidParams.speed, JsZero)) =>
        LET expected == HalfATSquared(wizard.asteroidParams, wizard.gravityParams)
        IN  /\ JsGt(wizard.simulationResults.distanceChange, JsZero)
            /\ ~JsGt(JsAbs(JsSub(wizard.simulationResults.distanceChange, expected)), JsMul(Js(1, -2), expected))

InitWizard ==
    /\ WizardInit
    /\ nbody = NBodyIdle
    /\ impact = ImpactIdle
    /\ popCache = CacheIdle
    /\ sweep = SweepIdle
    /\ kepler = KeplerIdle
    /\ orbit = OrbitIdle
    /\ mitigation = MitigationIdle
    /\ simulator = SimulatorIdle
    /\ context = ContextIdle
    /\ nav = NavIdle

NextWizard ==
    \/ createCustomScenario
    \/ setSize
    \/ setClosestDistance
    \/ setSpeed
    \/ setDifferentiation
    \/ chooseMethodStep
    \/ selectMethod
    \/ setImpactorMass
    \/ setImpactLocation
    \/ setTractorDistance
    \/ runSimulation
    \/ simulationTimer
    \/ startNewSimulation

SpecWizard == InitWizard /\ [][NextWizard]_vars

(***************************************************************************)
(* A momentum sweep: one asteroid and impact geometry, the impactor mass   *)
(* raised step by step, and at each step the classification of the         *)
(* wizard's kinetic model and of the B-plane model for the same asteroid   *)
(* and the same delta-v (the B-plane beta is the wizard's momentum factor  *)
(* minus one, so that both compute beta_wizard * m * v / M).               *)
(***************************************************************************)

\* The impactor masses of a sweep, ascending.
MomentumLadder == <<JsZero, Js(300, 0), Js(600, 0), Js(1200, 0)>>

SweepSizes == { Js(4, 0), Js(370, 0) }

SweepDistances == { Js(6100, 0), Js(7000, 0), Js(30000, 0) }

SweepLeadDays == { Js(1, 0), Js(10, 0) }

SweepAngles == { 90, -90 }

\* The wizard's asteroid parameters for a sweep scenario.
SweepAsteroid(scenario) ==
    [WizardStart.asteroidParams EXCEPT !.size = scenario.size,
                                       !.closestDistance = scenario.closestDistance]

\* Both classifications for one impactor mass.
classify(scenario, impactorMass) ==
    LET asteroidParams == SweepAsteroid(scenario)
        kineticParams == [WizardStart.kineticParams EXCEPT !.impactorMass = impactorMass]
        kinetic == calculateKineticDeflection(asteroidParams, kineticParams)
        output == runBPlane(asteroidMassOf(asteroidParams),
                            JsMul(asteroidParams.speed, Js(1000, 0)),
                            asteroidParams.closestDistance,
                            scenario.leadDays,
                            impactorMass,
                            JsMul(kineticParams.impactorVelocity, Js(1000, 0)),
                            JsSub(asteroidParams.momentumFactor, Js(1, 0)),
                            scenario.angle)
    IN  [impactorMass |-> impactorMass,
         velocityChange |-> kinetic.velocityChange,
         success |-> kinetic.success,
         deltaV |-> output.deltaV,
         hit |-> output.hit]

SweepInit ==
    \E size \in SweepSizes, closestDistance \in SweepDistances,
       leadDays \in SweepLeadDays, angle \in SweepAngles :
        sweep = [scenario |-> [size |-> size, closestDistance |-> closestDistance,
                               leadDays |-> leadDays, angle |-> angle],
                 outcomes |-> <<>>]

\* The next run of the sweep, with the next impactor mass of the ladder.
sweepStep ==
    /\ Len(sweep.outcomes) < Len(MomentumLadder)
    /\ sweep' = [sweep EXCEPT !.outcomes =
                    Append(@, classify(sweep.scenario,
                                       MomentumLadder[Len(sweep.outcomes) + 1]))]
    /\ UNCHANGED <<nbody, impact, popCache, wizard, kepler, orbit, mitigation, simulator, context, nav>>

\* A success of the wizard's model is never followed by a failure.
WizardMonotone ==
    \A i, j \in 1..Len(sweep.outcomes) :
        (i < j /\ sweep.outcomes[i].success) => sweep.outcomes[j].success

\* A MISS of the B-plane model is never followed by a HIT.
BPlaneMonotone ==
    \A i, j \in 1..Len(sweep.outcomes) :
        (i < j /\ ~sweep.outcomes[i].hit) => ~sweep.outcomes[j].hit

\* The B-plane deflection does not point toward Earth: sin(angle) and the
\* miss distance do not have opposite signs.
BPlaneAwayFromEarth ==
    JsMul(sweep.scenario.closestDistance, MathSinOfDegrees(sweep.scenario.angle)).sig >= 0

\* C7 as stated: for a fixed asteroid, miss distance and geometry, as the
\* impactor momentum increases the outcome changes at most once, from
\* failure to success, in the wizard's model and in the B-plane model.
C7_OutcomeMonotoneInMomentum == WizardMonotone /\ BPlaneMonotone

\* C7 as amended: the wizard's kinetic outcome changes at most once, from
\* failure to success, and so does the B-plane outcome when the deflection
\* does not point toward Earth.
C7_MonotoneAwayFromEarth ==
    /\ WizardMonotone
    /\ BPlaneAwayFromEarth => BPlaneMonotone

\* A full sweep in which both models cross their threshold: failure and HIT
\* with no impactor, success and MISS with the heaviest.
C7_Witness ==
    /\ Len(sweep.outcomes) = Len(MomentumLadder)
    /\ BPlaneAwayFromEarth
    /\ ~sweep.outcomes[1].success /\ sweep.outcomes[4].success
    /\ sweep.outcomes[1].hit /\ ~sweep.outcomes[4].hit

\* C8: for the same asteroid and the same delta-v the wizard's model and
\* the B-plane model give the same classification: success exactly when
\* MISS.
C8_ModelsAgree ==
    \A i \in 1..Len(sweep.outcomes) :
        sweep.outcomes[i].deltaV = sweep.outcomes[i].velocityChange =>
            sweep.outcomes[i].success = ~sweep.outcomes[i].hit

InitSweep ==
    /\ SweepInit
    /\ nbody = NBodyIdle
    /\ impact = ImpactIdle
    /\ popCache = CacheIdle
    /\ wizard = WizardIdle
    /\ kepler = KeplerIdle
    /\ orbit = OrbitIdle
    /\ mitigation = MitigationIdle
    /\ simulator = SimulatorIdle
    /\ context = ContextIdle
    /\ nav = NavIdle

NextSweep == sweepStep

SpecSweep == InitSweep /\ [][NextSweep]_vars


(***************************************************************************)
(* The Kepler solver: keplerSolve of Visualization3D.jsx and KeplerSolve   *)
(* of improved.R, one call at a time, one Newton iteration per step.  The  *)
(* two differ in the remainder that normalises M and in what a NaN         *)
(* condition does: false in JavaScript, an error in R.                     *)
(***************************************************************************)

\* The cap of the for loop.
MaxIterations == 200

tol == Js(1, -14)

Languages == { "js", "R" }

Eccentricities == { JsZero, Js(5, -1), Js(9, -1), Js(1, 0) }

MeanAnomalies == { JsZero, Js(1, 0), MathPI, Js(-4, 0), Js(7, 0) }

\* Mnorm: M brought to [-PI, PI) by the language's remainder.
normalizeAnomaly(lang, M) ==
    LET twoPi == JsMul(Js(2, 0), MathPI)
    IN  IF lang = "js" THEN JsSub(JsRem(JsAdd(M, MathPI), twoPi), MathPI)
        ELSE JsSub(RMod(JsAdd(M, MathPI), twoPi), MathPI)

\* The starting value of E.
initialGuess(e, Mnorm) == IF JsLt(JsAbs(e), Js(8, -1)) THEN Mnorm ELSE MathPI

\* dE = f / fp for the current E.
newtonStep(e, Mnorm, E) ==
    LET f == JsSub(JsSub(E, JsMul(e, MathSin(E))), Mnorm)
        fp == JsSub(Js(1, 0), JsMul(e, MathCos(E)))
    IN  JsDiv(f, fp)

\* The call: Mnorm and the starting E, before the first iteration.
KeplerInit ==
    \E lang \in Languages, e \in Eccentricities, M \in MeanAnomalies :
        LET Mnorm == normalizeAnomaly(lang, M)
        IN  kepler = [pc |-> "loop", lang |-> lang, e |-> e, M |-> M, Mnorm |-> Mnorm,
                      E |-> initialGuess(e, Mnorm), k |-> 0]

\* One pass of the loop body.  The break test on a NaN step is an error in
\* R; the function returns E on break and when the loop has run its cap.
keplerIterate ==
    /\ kepler.pc = "loop"
    /\ kepler.k < MaxIterations
    /\ LET dE == newtonStep(kepler.e, kepler.Mnorm, kepler.E)
           E == JsSub(kepler.E, dE)
           k == kepler.k + 1
       IN  kepler' = [kepler EXCEPT
               !.E = E,
               !.k = k,
               !.pc = IF kepler.lang = "R" /\ dE.kind = "nan" THEN "threw"
                      ELSE IF JsLt(JsAbs(dE), tol) THEN "returned"
                      ELSE IF k = MaxIterations THEN "returned"
                      ELSE "loop"]
    /\ UNCHANGED <<nbody, impact, popCache, wizard, sweep, orbit, mitigation, simulator, context, nav>>

\* C10: for every eccentricity and mean anomaly the solver runs at most 200
\* iterations and then returns E, and it never throws.
C10_ReturnsWithinCap ==
    /\ kepler.pc # "threw"
    /\ kepler.k <= MaxIterations
    /\ kepler.k = MaxIterations => kepler.pc = "returned"

\* C19: before the first iteration the solver holds a mean anomaly brought
\* into (-PI, PI], whatever M it was called with.
C19_NormalizedBeforeIterating ==
    kepler.pc # "idle" =>
        /\ JsLt(JsSub(JsZero, MathPI), kepler.Mnorm)
        /\ ~JsLt(MathPI, kepler.Mnorm)

InitKepler ==
    /\ KeplerInit
    /\ nbody = NBodyIdle
    /\ impact = ImpactIdle
    /\ popCache = CacheIdle
    /\ wizard = WizardIdle
    /\ sweep = SweepIdle
    /\ orbit = OrbitIdle
    /\ mitigation = MitigationIdle
    /\ simulator = SimulatorIdle
    /\ context = ContextIdle
    /\ nav = NavIdle

NextKepler == keplerIterate

SpecKepler == InitKepler /\ [][NextKepler]_vars

----------------------------------------------------------------------------
(* Orbit plotter: the simulation form (part_000).                          *)
(* Lengths in km, speeds in km/s, angles in radians, all as JavaScript     *)
(* numbers; vectors are 3-tuples and matrices 3-tuples of rows.            *)

multiplyMatrix(m1, m2) == [i \in 1..3 |-> [j \in 1..3 |-> JsAdd(JsAdd(JsMul(m1[i][1], m2[1][j]), JsMul(m1[i][2], m2[2][j])), JsMul(m1[i][3], m2[3][j]))]]

transposeMatrix(m) == [i \in 1..3 |-> [j \in 1..3 |-> m[j][i]]]

multiplyMatrixVector(m, v) == [i \in 1..3 |-> JsAdd(JsAdd(JsMul(m[i][1], v[1]), JsMul(m[i][2], v[2])), JsMul(m[i][3], v[3]))]

crossProduct(v1, v2) ==
    << JsSub(JsMul(v1[2], v2[3]), JsMul(v1[3], v2[2])),
       JsSub(JsMul(v1[3], v2[1]), JsMul(v1[1], v2[3])),
       JsSub(JsMul(v1[1], v2[2]), JsMul(v1[2], v2[1])) >>

dotProduct(v1, v2) == JsAdd(JsAdd(JsMul(v1[1], v2[1]), JsMul(v1[2], v2[2])), JsMul(v1[3], v2[3]))

\* Math.sqrt(v.reduce((acc, val) => acc + val*val, 0))
norm(v) == JsSqrt(dotProduct(v, v))

\* The rotation about the z axis by th.
Rz(th) ==
    << <<MathCos(th), JsNeg(MathSin(th)), JsZero>>,
       <<MathSin(th), MathCos(th), JsZero>>,
       <<JsZero, JsZero, Js(1, 0)>> >>

\* The rotation about the x axis by th.
Rx(th) ==
    << <<Js(1, 0), JsZero, JsZero>>,
       <<JsZero, MathCos(th), JsNeg(MathSin(th))>>,
       <<JsZero, MathSin(th), MathCos(th)>> >>

\* The perifocal position and velocity at true anomaly nu.
perifocal(p, ecc, nu, attractor, r_norm) == [r |-> <<JsMul(r_norm, MathCos(nu)), JsMul(r_norm, MathSin(nu)), JsZero>>, v |-> <<JsMul(JsNeg(JsSqrt(JsDiv(attractor, p))), MathSin(nu)), JsMul(JsSqrt(JsDiv(attractor, p)), JsAdd(ecc, MathCos(nu))), JsZero>>]

\* Returns [r_vec, v_vec]: the perifocal vectors multiplied by the transpose
\* of R_raan * (R_inc * R_argp).
elementsToStateVectors(elements) ==
    LET p == JsMul(elements.a, JsSub(Js(1, 0), JsMul(elements.ecc, elements.ecc)))
        r_norm == JsDiv(p, JsAdd(Js(1, 0), JsMul(elements.ecc, MathCos(elements.nu))))
        pqw == perifocal(p, elements.ecc, elements.nu, elements.attractor, r_norm)
        R_argp_inc == multiplyMatrix(Rx(elements.inc), Rz(elements.argp))
        R_total == multiplyMatrix(Rz(elements.raan), R_argp_inc)
        R_transpose == transposeMatrix(R_total)
    IN  << multiplyMatrixVector(R_transpose, pqw.r),
           multiplyMatrixVector(R_transpose, pqw.v) >>

\* e_vec of stateVectorsToElements
eccentricityVector(r, v, attractor) ==
    LET vxh == crossProduct(v, crossProduct(r, v))
    IN  [i \in 1..3 |-> JsSub(JsDiv(vxh[i], attractor), JsDiv(r[i], norm(r)))]

\* Math.acos(dotProduct(n_vec, e_vec) / (n_norm * ecc)) of stateVectorsToElements
argpArcCosine(state) ==
    LET h_vec == crossProduct(state.r, state.v)
        n_vec == <<JsNeg(h_vec[2]), h_vec[1], JsZero>>
        e_vec == eccentricityVector(state.r, state.v, state.attractor)
    IN  MathAcos(JsDiv(dotProduct(n_vec, e_vec), JsMul(norm(n_vec), norm(e_vec))))

\* Math.acos(dotProduct(e_vec, r) / (ecc * r_norm)) of stateVectorsToElements
nuArcCosine(state) ==
    LET e_vec == eccentricityVector(state.r, state.v, state.attractor)
    IN  MathAcos(JsDiv(dotProduct(e_vec, state.r), JsMul(norm(e_vec), norm(state.r))))

\* What a call leaves: a returned value, or the exception it threw.
Returned(value) == [threw |-> FALSE, value |-> value]

Threw(message) == [threw |-> TRUE, message |-> message]

\* argp and nu are declared const: the assignment in either reflection
\* branch throws a TypeError instead of storing 2 PI minus the arc cosine.
stateVectorsToElements(state) ==
    LET r == state.r
        v == state.v
        attractor == state.attractor
        r_norm == norm(r)
        v_norm_sq == dotProduct(v, v)
        h_vec == crossProduct(r, v)
        h_norm == norm(h_vec)
        n_vec == <<JsNeg(h_vec[2]), h_vec[1], JsZero>>
        e_vec == eccentricityVector(r, v, attractor)
        ecc == norm(e_vec)
        a == JsDiv(Js(1, 0), JsSub(JsDiv(Js(2, 0), r_norm), JsDiv(v_norm_sq, attractor)))
        inc == MathAcos(JsDiv(h_vec[3], h_norm))
        raan == MathAtan2(n_vec[2], n_vec[1])
        argp == argpArcCosine(state)
        nu == nuArcCosine(state)
    IN  IF JsLt(e_vec[3], JsZero) THEN Threw("Assignment to constant variable.")
        ELSE IF JsLt(dotProduct(r, v), JsZero) THEN Threw("Assignment to constant variable.")
        ELSE Returned([a |-> a, ecc |-> ecc, inc |-> inc, raan |-> raan, argp |-> argp, nu |-> nu, attractor |-> attractor])

\* j Newton-Raphson updates of E for Kepler's equation M = E - ecc sin E.
RECURSIVE newtonRaphson(_, _, _, _)
newtonRaphson(ecc, M, E, j) ==
    IF j = 0 THEN E
    ELSE Bind(JsSub(E, JsDiv(JsSub(JsSub(E, JsMul(ecc, MathSin(E))), M), JsSub(Js(1, 0), JsMul(ecc, MathCos(E))))), LAMBDA E1 : newtonRaphson(ecc, M, E1, j - 1))

\* The true anomaly of eccentric anomaly E.
trueAnomaly(ecc, E) ==
    JsMul(Js(2, 0), MathAtan2(JsMul(JsSqrt(JsAdd(Js(1, 0), ecc)), MathSin(JsDiv(E, Js(2, 0)))), JsMul(JsSqrt(JsSub(Js(1, 0), ecc)), MathCos(JsDiv(E, Js(2, 0))))))

num_points == 360

\* A walk over half a turn only: a mutation of meanAnomalyAt.
meanAnomalyHalfTurn(i) == JsMul(JsDiv(Js(i, 0), Js(num_points, 0)), MathPI)

\* M = (i / num_points) * 2 * Math.PI
meanAnomalyAt(i) == JsMul(JsMul(JsDiv(Js(i, 0), Js(num_points, 0)), Js(2, 0)), MathPI)

\* The position at mean anomaly (i / num_points) * 2 PI.
orbitSample(elements, i) ==
    Bind(meanAnomalyAt(i), LAMBDA M :
    Bind(newtonRaphson(elements.ecc, M, M, 7), LAMBDA E :
    Bind([elements EXCEPT !.nu = trueAnomaly(elements.ecc, E)], LAMBDA sampled :
        elementsToStateVectors(sampled)[1])))

\* path: the positions for i = 0 .. num_points, in order.
propagateOrbit(elements) == [k \in 1..(num_points + 1) |-> orbitSample(elements, k - 1)]

\* The circle of radius 1 AU in the ecliptic plane; epochJd is not read.
getEarthOrbit(epochJd) ==
    LET earth_a == Js(1496, 5)
        angle(i) == JsMul(JsMul(JsDiv(Js(i, 0), Js(num_points, 0)), Js(2, 0)), MathPI)
    IN  [k \in 1..(num_points + 1) |-> <<JsMul(earth_a, MathCos(angle(k - 1))), JsMul(earth_a, MathSin(angle(k - 1))), JsZero>>]

\* The fields of the form: craft-mass (kg), craft-vel (m/s), ast-density
\* (kg/m^3), beta and direction-mode.
FormInputs == [craftMass : {Js(500, 0), Js(5, 8)}, craftVel : {Js(1, 4)}, astDensity : {Js(3, 3)}, beta : {Js(1, 0)}, directionMode : {"1", "2", "3"}]

\* The bodies the NEO service answers with: the mean diameter in metres and
\* orbital_data (semi-major axis in AU, angles in degrees).
NeoData == [diamMeters : {Js(1, 2)}, semi_major_axis : {Js(1, 0)}, eccentricity : {Js(5, -1)}, inclination : {Js(30, 0), Js(90, 0)}, ascending_node_longitude : {JsZero}, perihelion_argument : {JsZero, Js(90, 0), Js(270, 0)}, mean_anomaly : {JsZero, Js(90, 0), Js(270, 0)}]

\* Steps 3 and 4 of the submit handler up to the deflected velocity: the
\* elements of the original orbit and the argument of stateVectorsToElements.
deflectedState(form, data) ==
    LET astMass == JsMul(JsMul(JsMul(JsDiv(Js(4, 0), Js(3, 0)), MathPI), JsMul(JsMul(JsDiv(data.diamMeters, Js(2, 0)), JsDiv(data.diamMeters, Js(2, 0))), JsDiv(data.diamMeters, Js(2, 0)))), form.astDensity)
        deg2rad == JsDiv(MathPI, Js(180, 0))
        ecc == data.eccentricity
        auToKm == Js(1496, 5)
        deltaVMagnitude == JsDiv(JsMul(JsMul(form.beta, form.craftMass), JsDiv(form.craftVel, Js(1000, 0))), astMass)
        deltaV_vec(r_hat, v_hat, dv) ==
            IF form.directionMode = "1" THEN [i \in 1..3 |-> JsMul(v_hat[i], dv)]
            ELSE IF form.directionMode = "2" THEN [i \in 1..3 |-> JsMul(v_hat[i], JsNeg(dv))]
            ELSE [i \in 1..3 |-> JsMul(r_hat[i], dv)]
    IN  Bind(JsMul(data.mean_anomaly, deg2rad), LAMBDA ma :
        Bind(newtonRaphson(ecc, ma, ma, 7), LAMBDA E :
        Bind([a |-> JsMul(data.semi_major_axis, auToKm), ecc |-> ecc, inc |-> JsMul(data.inclination, deg2rad), raan |-> JsMul(data.ascending_node_longitude, deg2rad), argp |-> JsMul(data.perihelion_argument, deg2rad), nu |-> trueAnomaly(ecc, E), attractor |-> Js(1327, 8)], LAMBDA elements :
        Bind(elementsToStateVectors(elements), LAMBDA rv :
        Bind(<<norm(rv[1]), norm(rv[2]), deltaVMagnitude>>, LAMBDA n :
        Bind(deltaV_vec([i \in 1..3 |-> JsDiv(rv[1][i], n[1])], [i \in 1..3 |-> JsDiv(rv[2][i], n[2])], n[3]), LAMBDA dV :
            [orbit |-> elements, state |-> [r |-> rv[1], v |-> [i \in 1..3 |-> JsAdd(rv[2][i], dV[i])], attractor |-> elements.attractor]]))))))

\* The form is submitted: the output is cleared, the loader shown, and the
\* handler waits for the fetch of the NEO record.
submitForm ==
    /\ orbit.pc \in {"idle", "done"}
    /\ \E form \in FormInputs :
        orbit' = [pc |-> "fetch", form |-> form, plotInfo |-> [display |-> "none", textContent |-> ""], plotOutput |-> "", loader |-> "block"]
    /\ UNCHANGED <<nbody, impact, popCache, wizard, sweep, kepler, mitigation, simulator, context, nav>>

\* The fetch settles: a response that is not ok is thrown as an HTTP error
\* and reported; an ok response is read as JSON.
fetchSettled ==
    /\ orbit.pc = "fetch"
    /\ \/ orbit' = [orbit EXCEPT !.pc = "done", !.plotInfo = [display |-> "block", textContent |-> "HTTP error"], !.loader = "none"]
       \/ \E data \in NeoData : orbit' = [pc |-> "json", form |-> orbit.form, data |-> data, plotInfo |-> orbit.plotInfo, plotOutput |-> orbit.plotOutput, loader |-> orbit.loader]
    /\ UNCHANGED <<nbody, impact, popCache, wizard, sweep, kepler, mitigation, simulator, context, nav>>

\* The JSON arrives: the rest of the handler runs to its end.  An exception
\* of stateVectorsToElements is caught and shown in plotInfo; otherwise the
\* three paths are propagated and plotted (plotOutput keeps each asteroid
\* path by the elements propagateOrbit is called with).  The loader is hidden
\* either way.
dataReceived ==
    /\ orbit.pc = "json"
    /\ \E d \in {deflectedState(orbit.form, orbit.data)} : \E finalOrbit \in {stateVectorsToElements(d.state)} :
           orbit' = IF finalOrbit.threw
                    THEN [pc |-> "done", form |-> orbit.form, data |-> orbit.data, state |-> d.state, finalOrbit |-> finalOrbit, plotInfo |-> [display |-> "block", textContent |-> finalOrbit.message], plotOutput |-> "", loader |-> "none"]
                    ELSE [pc |-> "done", form |-> orbit.form, data |-> orbit.data, state |-> d.state, finalOrbit |-> finalOrbit, plotInfo |-> orbit.plotInfo, plotOutput |-> [originalPath |-> d.orbit, finalPath |-> finalOrbit.value, earthOrbit |-> "getEarthOrbit"], loader |-> "none"]
    /\ UNCHANGED <<nbody, impact, popCache, wizard, sweep, kepler, mitigation, simulator, context, nav>>

\* The orbits the sampler is run on by itself: the original orbits of the
\* bodies of NeoData.
SampledOrbits == { deflectedState([craftMass |-> Js(500, 0), craftVel |-> Js(1, 4), astDensity |-> Js(3, 3), beta |-> Js(1, 0), directionMode |-> "1"], data).orbit : data \in { d \in NeoData : d.mean_anomaly = JsZero } }

\* propagateOrbit is entered: the path is empty and i = 0.  `first` keeps the
\* path of the call before, for a second call with the same elements.
propagateInit == \E elements \in SampledOrbits : orbit = [pc |-> "propagate", elements |-> elements, i |-> 0, path |-> <<>>, first |-> <<>>, call |-> 1]

\* One turn of the for loop: the sample for i is pushed onto the path.
propagateStep ==
    /\ orbit.pc = "propagate"
    /\ orbit.i <= num_points
    /\ orbit' = [orbit EXCEPT !.path = Append(@, orbitSample(orbit.elements, orbit.i)), !.i = @ + 1]
    /\ UNCHANGED <<nbody, impact, popCache, wizard, sweep, kepler, mitigation, simulator, context, nav>>

\* The loop ends and the path is returned.
propagateReturn ==
    /\ orbit.pc = "propagate"
    /\ orbit.i > num_points
    /\ orbit' = [orbit EXCEPT !.pc = "returned"]
    /\ UNCHANGED <<nbody, impact, popCache, wizard, sweep, kepler, mitigation, simulator, context, nav>>

\* propagateOrbit is called again with the same elements.
propagateAgain ==
    /\ orbit.pc = "returned"
    /\ orbit.call = 1
    /\ orbit' = [pc |-> "propagate", elements |-> orbit.elements, i |-> 0, path |-> <<>>, first |-> orbit.path, call |-> 2]
    /\ UNCHANGED <<nbody, impact, popCache, wizard, sweep, kepler, mitigation, simulator, context, nav>>

InitSampler ==
    /\ propagateInit
    /\ nbody = NBodyIdle
    /\ impact = ImpactIdle
    /\ popCache = CacheIdle
    /\ wizard = WizardIdle
    /\ sweep = SweepIdle
    /\ kepler = KeplerIdle
    /\ mitigation = MitigationIdle
    /\ simulator = SimulatorIdle
    /\ context = ContextIdle
    /\ nav = NavIdle

NextSampler == propagateStep \/ propagateReturn \/ propagateAgain

SpecSampler == InitSampler /\ [][NextSampler]_vars

\* The state vector handed to stateVectorsToElements has a defined
\* eccentricity vector and node line: both arc cosines are numbers.
NonDegenerate(state) == JsIsFinite(argpArcCosine(state)) /\ JsIsFinite(nuArcCosine(state))

\* C11: for every non-degenerate state vector, stateVectorsToElements returns
\* elements whose argument of periapsis is 2 PI minus its arc cosine when the
\* z component of the eccentricity vector is negative (the arc cosine itself
\* otherwise), and whose true anomaly is 2 PI minus its arc cosine when r.v
\* is negative (the arc cosine itself otherwise).
C11_QuadrantsDisambiguated ==
    (orbit.pc = "done" /\ "finalOrbit" \in DOMAIN orbit /\ NonDegenerate(orbit.state)) =>
        /\ ~orbit.finalOrbit.threw
        /\ orbit.finalOrbit.value.argp =
              IF JsLt(eccentricityVector(orbit.state.r, orbit.state.v, orbit.state.attractor)[3], JsZero)
              THEN JsSub(JsMul(Js(2, 0), MathPI), argpArcCosine(orbit.state))
              ELSE argpArcCosine(orbit.state)
        /\ orbit.finalOrbit.value.nu =
              IF JsLt(dotProduct(orbit.state.r, orbit.state.v), JsZero)
              THEN JsSub(JsMul(Js(2, 0), MathPI), nuArcCosine(orbit.state))
              ELSE nuArcCosine(orbit.state)

\* rot of elementsToState: Rz(om) * Rx(i) * Rz(w).
rot(om, i, w) == multiplyMatrix(multiplyMatrix(Rz(om), Rx(i)), Rz(w))

\* The perifocal vector pqw turned by Rz(raan) * Rx(inc) * Rz(argp).
Rotated(elements, pqw) == multiplyMatrixVector(rot(elements.raan, elements.inc, elements.argp), pqw)

\* u and w agree in every component to within a hundredth of the length of w.
CloseTo(u, w) == \A k \in 1..3 : ~JsGt(JsAbs(JsSub(u[k], w[k])), JsMul(Js(1, -2), norm(w)))

\* C20: the position the submit handler derives from the orbital elements is
\* the perifocal position turned by exactly Rz(raan) * Rx(inc) * Rz(argp).
C20_RotatesByZXZ ==
    (orbit.pc = "done" /\ "state" \in DOMAIN orbit) =>
        \E elements \in {deflectedState(orbit.form, orbit.data).orbit} :
            \E p \in {JsMul(elements.a, JsSub(Js(1, 0), JsMul(elements.ecc, elements.ecc)))} :
                CloseTo(orbit.state.r, Rotated(elements, perifocal(p, elements.ecc, elements.nu, elements.attractor, JsDiv(p, JsAdd(Js(1, 0), JsMul(elements.ecc, MathCos(elements.nu))))).r))

InitOrbit ==
    /\ orbit = OrbitIdle
    /\ nbody = NBodyIdle
    /\ impact = ImpactIdle
    /\ popCache = CacheIdle
    /\ wizard = WizardIdle
    /\ sweep = SweepIdle
    /\ kepler = KeplerIdle
    /\ mitigation = MitigationIdle
    /\ simulator = SimulatorIdle
    /\ context = ContextIdle
    /\ nav = NavIdle

NextOrbit == submitForm \/ fetchSettled \/ dataReceived

SpecOrbit == InitOrbit /\ [][NextOrbit]_vars

----------------------------------------------------------------------------
(* The mitigation scene (MitigationVisualization3D.jsx), one frame of the   *)
(* render loop at a time.  Lengths and scales are in thousandths of a scene *)
(* unit, the deflection progress in ten-thousandths.  The asteroid stays at *)
(* [0, 0, 0], the impactor flies along the x axis and the warhead along the *)
(* straight line to its detonation point, so each is kept by its distance   *)
(* to the target.  The mission clock and the HUD distance feed nothing back *)
(* and are left out.                                                        *)

\* delta of a frame, in milliseconds.
FrameDeltas == { 50, 100 }

Methods == { "kinetic_impactor", "gravity_tractor", "nuclear" }

\* deflectionVector of a successful mitigation.
deflectionVector == <<0, 3, 2>>

\* The scene after its first render: useState of MitigationScene,
\* KineticImpactor ([-15, 0, 0]), NuclearDeflection ([-12, 3, 0], 10.44 from
\* [-2, 0, 0]) and AnimatedAsteroid.
SceneMounted(method, successful, delta) ==
    [pc |-> "mounted", method |-> method, deflection_successful |-> successful, delta |-> delta,
     animate |-> FALSE, impactComplete |-> FALSE,
     impactorDistance |-> 15000, isImpacting |-> FALSE, impactExplosionScale |-> 0, timeouts |-> 0,
     warheadDistance |-> 10440, detonated |-> FALSE, explosionScale |-> 0,
     deflectionProgress |-> 0, currentPosition |-> <<0, 0, 0>>,
     completions |-> 0]

\* useFrame of AnimatedAsteroid: the progress grows by delta * 0.3 up to 1
\* and the position is set from the progress of this render.
animatedAsteroidFrame(m) ==
    IF m.impactComplete /\ m.deflection_successful /\ m.deflectionProgress < 10000
    THEN [m EXCEPT !.deflectionProgress = Min2(m.deflectionProgress + 3 * m.delta, 10000),
                   !.currentPosition = [k \in 1..3 |-> deflectionVector[k] * m.deflectionProgress]]
    ELSE m

\* useFrame of KineticImpactor: the explosion grows once impacting; before,
\* the impactor accelerates to the asteroid and, within 0.5 of it, starts the
\* impact and sets the one-second timer of onComplete.
kineticImpactorFrame(m) ==
    IF ~m.animate THEN m
    ELSE IF m.isImpacting
    THEN IF m.impactExplosionScale < 3000 THEN [m EXCEPT !.impactExplosionScale = @ + 2 * m.delta] ELSE m
    ELSE IF m.impactorDistance < 500
    THEN [m EXCEPT !.isImpacting = TRUE, !.timeouts = @ + 1]
    ELSE [m EXCEPT !.impactorDistance = @ - (150 + (15000 - @) \div 100)]

\* useFrame of NuclearDeflection: after the detonation the explosion grows by
\* 0.06 a frame while below 4 and onComplete is called when the scale of
\* this render is at least 3.8; before, the warhead flies 0.12 a frame and
\* detonates within 0.3 of its target.
nuclearDeflectionFrame(m) ==
    IF ~m.animate \/ m.detonated
    THEN IF m.detonated /\ m.explosionScale < 4000
         THEN IF m.explosionScale >= 3800
              THEN [m EXCEPT !.explosionScale = @ + 60, !.impactComplete = TRUE, !.completions = @ + 1]
              ELSE [m EXCEPT !.explosionScale = @ + 60]
         ELSE m
    ELSE IF m.warheadDistance < 300
    THEN [m EXCEPT !.detonated = TRUE]
    ELSE [m EXCEPT !.warheadDistance = @ - 120]

\* One frame: the useFrame callbacks of the mounted components, each on the
\* state of the last render.
useFrame ==
    /\ mitigation.pc = "mounted"
    /\ \E a \in {animatedAsteroidFrame(mitigation)} :
          mitigation' = IF mitigation.method = "kinetic_impactor" THEN kineticImpactorFrame(a)
                        ELSE IF mitigation.method = "nuclear" THEN nuclearDeflectionFrame(a)
                        ELSE a
    /\ UNCHANGED <<nbody, impact, popCache, wizard, sweep, kepler, orbit, simulator, context, nav>>

\* The timer of the kinetic impact fires: onComplete sets impactComplete.
impactTimeout ==
    /\ mitigation.pc = "mounted"
    /\ mitigation.timeouts > 0
    /\ mitigation' = [mitigation EXCEPT !.timeouts = @ - 1, !.impactComplete = TRUE, !.completions = @ + 1]
    /\ UNCHANGED <<nbody, impact, popCache, wizard, sweep, kepler, orbit, simulator, context, nav>>

\* The parent sets the animate prop.
playAnimation ==
    /\ mitigation.pc = "mounted"
    /\ ~mitigation.animate
    /\ mitigation' = [mitigation EXCEPT !.animate = TRUE]
    /\ UNCHANGED <<nbody, impact, popCache, wizard, sweep, kepler, orbit, simulator, context, nav>>

MitigationInit == \E method \in Methods, successful \in BOOLEAN, delta \in FrameDeltas : mitigation = SceneMounted(method, successful, delta)

\* C23: the deflection progress stays within 0 and 1, is above 0 only once
\* the impact has occurred, never decreases, and a running animation of a
\* successful mitigation leads to progress 1 with the asteroid moved by the
\* whole of [0, 3, 2].
C23_ProgressReachesFullDeflection ==
    /\ [](mitigation.deflectionProgress \in 0..10000)
    /\ [](mitigation.deflectionProgress > 0 => mitigation.impactComplete)
    /\ [][mitigation'.deflectionProgress >= mitigation.deflectionProgress]_vars
    /\ (mitigation.animate /\ mitigation.deflection_successful) ~>
          (mitigation.deflectionProgress = 10000 /\ mitigation.currentPosition = [k \in 1..3 |-> deflectionVector[k] * 10000])

\* C30: onComplete has been invoked at most once, and only after the
\* impactor reached the asteroid or the warhead detonated.
C30_CompletionInvokedOnce ==
    /\ mitigation.completions <= 1
    /\ mitigation.completions > 0 =>
          \/ mitigation.method = "kinetic_impactor" /\ mitigation.isImpacting
          \/ mitigation.method = "nuclear" /\ mitigation.detonated

InitMitigation ==
    /\ MitigationInit
    /\ nbody = NBodyIdle
    /\ impact = ImpactIdle
    /\ popCache = CacheIdle
    /\ wizard = WizardIdle
    /\ sweep = SweepIdle
    /\ kepler = KeplerIdle
    /\ orbit = OrbitIdle
    /\ simulator = SimulatorIdle
    /\ context = ContextIdle
    /\ nav = NavIdle

NextMitigation == useFrame \/ impactTimeout \/ playAnimation

SpecMitigation == InitMitigation /\ [][NextMitigation]_vars

\* The render loop keeps producing frames and a set timer fires.
FairMitigation == SpecMitigation /\ WF_vars(useFrame) /\ WF_vars(impactTimeout)

----------------------------------------------------------------------------
(* The impact map of MITIGATION_ENHANCEMENTS.md: AsteroidImpactSimulator    *)
(* with its PopulationDataCache.  A location is one of a few sites, each a  *)
(* cache key of its own; a lookup result is kept with the site it was       *)
(* requested for.  A continuation after an await on a settled promise runs  *)
(* before any other event and is folded into the action that settles it.    *)

Sites == { "guwahati", "pacific", "europe" }

\* The 100 ms timers that may be set and not yet run.
MaxTimers == 2

\* processNASAResponse: -9999 (no data) over the ocean, a density on land.
processNASAResponse(site) == [site |-> site, source |-> "NASA SEDAC API", isOceanData |-> (site = "pacific")]

\* getRegionalEstimate: the fallback, always flagged as land.
getRegionalEstimate(site) == [site |-> site, source |-> "Regional Analysis", isOceanData |-> FALSE]

\* What fetchPopulationData can resolve with for a site.
PopulationResults(site) == { processNASAResponse(site), getRegionalEstimate(site) }

NoData == [site |-> "none"]

\* updateTargetDensityVisibility: this.currentTargetDensity (the slider is at
\* its default).
updateTargetDensityVisibility(isOceanImpact) == IF isOceanImpact THEN 1025 ELSE 2700

\* The continuation of loadPopulationData after the await, applied to sim.
populationLoaded(sim, populationData) ==
    [sim EXCEPT !.currentPopulationData = populationData,
                !.isOceanImpact = populationData.isOceanData,
                !.currentTargetDensity = updateTargetDensityVisibility(populationData.isOceanData)]

\* loadPopulationData for the current coordinates, up to the await: a cached
\* key continues at once, any other key waits for its (one) request.
loadPopulationData(sim) ==
    IF sim.cache[sim.marker] # NoData
    THEN populationLoaded(sim, sim.cache[sim.marker])
    ELSE [sim EXCEPT !.pendingRequests = @ \cup {sim.marker}, !.loading = @ \cup {sim.marker}]

\* The constructor and initializeMap: loadInitialPopulationData is waiting.
SimulatorStart ==
    [pc |-> "ready", marker |-> "guwahati", currentPopulationData |-> NoData, isOceanImpact |-> FALSE,
     currentTargetDensity |-> 2700, cache |-> [k \in Sites |-> NoData],
     pendingRequests |-> {"guwahati"}, loading |-> {"guwahati"}, timers |-> <<>>,
     delayed |-> [ran |-> FALSE], calculating |-> "no", impactResults |-> NoData]

\* map.on('click'): the marker moves, the population is loaded and the
\* 100 ms timer is set.
mapClick ==
    /\ simulator.pc = "ready"
    /\ Len(simulator.timers) < MaxTimers
    /\ \E site \in Sites :
          simulator' = [loadPopulationData([simulator EXCEPT !.marker = site]) EXCEPT !.timers = Append(@, site)]
    /\ UNCHANGED <<nbody, impact, popCache, wizard, sweep, kepler, orbit, mitigation, context, nav>>

\* marker.on('dragend'): the marker moves and the population is loaded.
markerDragend ==
    /\ simulator.pc = "ready"
    /\ \E site \in Sites \ {simulator.marker} :
          simulator' = loadPopulationData([simulator EXCEPT !.marker = site])
    /\ UNCHANGED <<nbody, impact, popCache, wizard, sweep, kepler, orbit, mitigation, context, nav>>

\* The timer of a click runs updateTargetDensityVisibility(this.isOceanImpact).
\* `delayed` keeps the site of the click and the site isOceanImpact was last
\* determined from.
delayedVisibilityUpdate ==
    /\ simulator.pc = "ready"
    /\ simulator.timers # <<>>
    /\ simulator' = [simulator EXCEPT
          !.timers = Tail(@),
          !.currentTargetDensity = updateTargetDensityVisibility(simulator.isOceanImpact),
          !.delayed = [ran |-> TRUE, clicked |-> Head(simulator.timers), determinedFrom |-> simulator.currentPopulationData.site]]
    /\ UNCHANGED <<nbody, impact, popCache, wizard, sweep, kepler, orbit, mitigation, context, nav>>

\* The request of one key settles: the result is cached, the request is
\* deleted, and every loadPopulationData (and a calculation) waiting for that
\* key continues with the result.
requestSettles ==
    /\ simulator.pc = "ready"
    /\ \E site \in simulator.pendingRequests : \E result \in PopulationResults(site) :
          \E loaded \in {IF site \in simulator.loading THEN populationLoaded(simulator, result) ELSE simulator} :
              simulator' = [loaded EXCEPT
                  !.cache[site] = result,
                  !.pendingRequests = @ \ {site},
                  !.loading = @ \ {site},
                  !.calculating = IF @ = site THEN "no" ELSE @,
                  !.impactResults = IF simulator.calculating = site
                                    THEN [site |-> result.site, marker |-> simulator.marker, quiet |-> FALSE]
                                    ELSE @]
    /\ UNCHANGED <<nbody, impact, popCache, wizard, sweep, kepler, orbit, mitigation, context, nav>>

\* calculateImpactEffects: with this.currentPopulationData, or waiting for
\* the lookup of the current coordinates when there is none yet.
calculateImpactEffects ==
    /\ simulator.pc = "ready"
    /\ simulator.calculating = "no"
    /\ simulator' =
          IF simulator.currentPopulationData # NoData
          THEN [simulator EXCEPT !.impactResults = [site |-> simulator.currentPopulationData.site, marker |-> simulator.marker, quiet |-> simulator.pendingRequests = {}]]
          ELSE IF simulator.cache[simulator.marker] # NoData
          THEN [simulator EXCEPT !.impactResults = [site |-> simulator.marker, marker |-> simulator.marker, quiet |-> simulator.pendingRequests = {}]]
          ELSE [simulator EXCEPT !.calculating = simulator.marker, !.pendingRequests = @ \cup {simulator.marker}]
    /\ UNCHANGED <<nbody, impact, popCache, wizard, sweep, kepler, orbit, mitigation, context, nav>>

SimulatorInit == simulator = SimulatorStart

\* C24: when the timer of a click runs, isOceanImpact has been determined
\* from the population data of the clicked location.
C24_DelayedUpdateSeesClickedLocation ==
    simulator.delayed.ran => simulator.delayed.determinedFrom = simulator.delayed.clicked

\* C25: with no lookup pending, currentPopulationData and isOceanImpact are
\* those of the marker's coordinates, and a calculation started then used the
\* population data of the coordinates the marker had.
C25_DataFollowsMarker ==
    /\ simulator.pendingRequests = {} =>
          /\ simulator.currentPopulationData = simulator.cache[simulator.marker]
          /\ simulator.isOceanImpact = simulator.cache[simulator.marker].isOceanData
    /\ (simulator.impactResults # NoData /\ simulator.impactResults.quiet) =>
          simulator.impactResults.site = simulator.impactResults.marker

InitSimulator ==
    /\ SimulatorInit
    /\ nbody = NBodyIdle
    /\ impact = ImpactIdle
    /\ popCache = CacheIdle
    /\ wizard = WizardIdle
    /\ sweep = SweepIdle
    /\ kepler = KeplerIdle
    /\ orbit = OrbitIdle
    /\ mitigation = MitigationIdle
    /\ context = ContextIdle
    /\ nav = NavIdle

NextSimulator == mapClick \/ markerDragend \/ delayedVisibilityUpdate \/ requestSettles \/ calculateImpactEffects

SpecSimulator == InitSimulator /\ [][NextSimulator]_vars

----------------------------------------------------------------------------
(* The simulation context (part_001: initialState, simulationReducer and    *)
(* the action creators) with the Simulation page that runs an impact        *)
(* request through it.  null is the string "null"; payloads are small       *)
(* stand-ins of the right shape.                                            *)

\* Dispatches by other consumers of the context that a behaviour may hold.
MaxDispatches == 2

\* Impact requests of the Simulation page that may be in flight together.
MaxRequests == 1

initialState ==
    [simulationParams |-> [diameter_m |-> 100, velocity_km_s |-> 17, density_kg_m3 |-> 3000],
     impactMetrics |-> "null", environmentalData |-> "null",
     selectedAsteroid |-> "null", asteroidList |-> <<>>,
     mitigationScenarios |-> <<>>, selectedMitigationMethod |-> "null",
     loading |-> FALSE, error |-> "null", activeTab |-> "simulation",
     mapCenter |-> <<0, 0>>, mapZoom |-> 2,
     showOrbit |-> TRUE, showEarth |-> TRUE, showAsteroid |-> TRUE, animationSpeed |-> 10]

ActionTypes ==
    { "SET_LOADING", "SET_ERROR", "SET_SIMULATION_PARAMS", "SET_IMPACT_METRICS",
      "SET_ENVIRONMENTAL_DATA", "SET_SELECTED_ASTEROID", "SET_ASTEROID_LIST",
      "SET_MITIGATION_SCENARIOS", "SET_SELECTED_MITIGATION_METHOD", "SET_ACTIVE_TAB",
      "SET_MAP_CENTER", "SET_MAP_ZOOM", "SET_3D_VISUALIZATION_STATE", "RESET_SIMULATION" }

\* { ...base, ...payload }
Spread(base, payload) == [k \in DOMAIN base \cup DOMAIN payload |-> IF k \in DOMAIN payload THEN payload[k] ELSE base[k]]

\* simulationReducer
simulationReducer(state, action) ==
    CASE action.type = "SET_LOADING" -> [state EXCEPT !.loading = action.payload]
      [] action.type = "SET_ERROR" -> [state EXCEPT !.error = action.payload, !.loading = FALSE]
      [] action.type = "SET_SIMULATION_PARAMS" -> [state EXCEPT !.simulationParams = Spread(@, action.payload)]
      [] action.type = "SET_IMPACT_METRICS" -> [state EXCEPT !.impactMetrics = action.payload, !.error = "null"]
      [] action.type = "SET_ENVIRONMENTAL_DATA" -> [state EXCEPT !.environmentalData = action.payload]
      [] action.type = "SET_SELECTED_ASTEROID" -> [state EXCEPT !.selectedAsteroid = action.payload]
      [] action.type = "SET_ASTEROID_LIST" -> [state EXCEPT !.asteroidList = action.payload]
      [] action.type = "SET_MITIGATION_SCENARIOS" -> [state EXCEPT !.mitigationScenarios = action.payload]
      [] action.type = "SET_SELECTED_MITIGATION_METHOD" -> [state EXCEPT !.selectedMitigationMethod = action.payload]
      [] action.type = "SET_ACTIVE_TAB" -> [state EXCEPT !.activeTab = action.payload]
      [] action.type = "SET_MAP_CENTER" -> [state EXCEPT !.mapCenter = action.payload]
      [] action.type = "SET_MAP_ZOOM" -> [state EXCEPT !.mapZoom = action.payload]
      [] action.type = "SET_3D_VISUALIZATION_STATE" -> Spread(state, action.payload)
      [] action.type = "RESET_SIMULATION" -> [state EXCEPT !.impactMetrics = "null", !.environmentalData = "null", !.error = "null"]
      [] OTHER -> state

\* The payloads a dispatch of each type is tried with.
Payloads(type) ==
    CASE type = "SET_LOADING" -> BOOLEAN
      [] type = "SET_ERROR" -> { "null", "Simulation failed" }
      [] type = "SET_SIMULATION_PARAMS" -> { [diameter_m |-> 500] }
      [] type = "SET_IMPACT_METRICS" -> { "null", "impact_metrics" }
      [] type = "SET_ENVIRONMENTAL_DATA" -> { "environmental_data" }
      [] type = "SET_SELECTED_ASTEROID" -> { "apophis" }
      [] type = "SET_ASTEROID_LIST" -> { <<"apophis", "bennu">> }
      [] type = "SET_MITIGATION_SCENARIOS" -> { <<"kinetic_impactor">> }
      [] type = "SET_SELECTED_MITIGATION_METHOD" -> { "gravity_tractor" }
      [] type = "SET_ACTIVE_TAB" -> { "results" }
      [] type = "SET_MAP_CENTER" -> { <<26, 91>> }
      [] type = "SET_MAP_ZOOM" -> { 5 }
      [] type = "SET_3D_VISUALIZATION_STATE" -> { [showOrbit |-> FALSE], [animationSpeed |-> 20] }
      [] OTHER -> { "null" }

\* dispatch(action) on the provider: `last` and `previous` keep the action
\* and the state it was applied to.
Dispatched(ctx, type, payload) ==
    [ctx EXCEPT !.previous = ctx.state,
                !.state = simulationReducer(ctx.state, [type |-> type, payload |-> payload]),
                !.last = [type |-> type, payload |-> payload]]

\* The provider after its first render, with the Simulation page mounted.
ContextStart ==
    [pc |-> "mounted", state |-> initialState, previous |-> initialState,
     last |-> [type |-> "none", payload |-> "null"], dispatches |-> 0,
     inFlight |-> 0, pageTab |-> "parameters"]

\* Any consumer dispatches one action, of a known or of an unknown type.
dispatch ==
    /\ context.pc = "mounted"
    /\ context.dispatches < MaxDispatches
    /\ \E type \in ActionTypes \cup {"UNKNOWN"} : \E payload \in Payloads(type) :
          context' = [Dispatched(context, type, payload) EXCEPT !.dispatches = @ + 1]
    /\ UNCHANGED <<nbody, impact, popCache, wizard, sweep, kepler, orbit, mitigation, simulator, nav>>

\* runSimulation of the Simulation page up to the await (the button is
\* disabled while loading): setLoading(true), then clearError().
pageRunSimulation ==
    /\ context.pc = "mounted"
    /\ ~context.state.loading
    /\ context.inFlight < MaxRequests
    /\ context' = [Dispatched(Dispatched(context, "SET_LOADING", TRUE), "SET_ERROR", "null") EXCEPT !.inFlight = @ + 1]
    /\ UNCHANGED <<nbody, impact, popCache, wizard, sweep, kepler, orbit, mitigation, simulator, nav>>

\* The request resolves with success: the results are stored, the results
\* tab is shown, and finally setLoading(false).
requestSucceeds ==
    /\ context.pc = "mounted"
    /\ context.inFlight > 0
    /\ context' = [Dispatched(Dispatched(Dispatched(context, "SET_IMPACT_METRICS", "impact_metrics"), "SET_ENVIRONMENTAL_DATA", "environmental_data"), "SET_LOADING", FALSE)
                      EXCEPT !.inFlight = @ - 1, !.pageTab = "results"]
    /\ UNCHANGED <<nbody, impact, popCache, wizard, sweep, kepler, orbit, mitigation, simulator, nav>>

\* The request rejects or resolves without success: setError(message), and
\* finally setLoading(false).
requestFails ==
    /\ context.pc = "mounted"
    /\ context.inFlight > 0
    /\ context' = [Dispatched(Dispatched(context, "SET_ERROR", "Simulation failed"), "SET_LOADING", FALSE) EXCEPT !.inFlight = @ - 1]
    /\ UNCHANGED <<nbody, impact, popCache, wizard, sweep, kepler, orbit, mitigation, simulator, nav>>

\* resetSimulation of the Simulation page.
pageResetSimulation ==
    /\ context.pc = "mounted"
    /\ context' = [Dispatched(Dispatched(Dispatched(Dispatched(context, "SET_SIMULATION_PARAMS", initialState.simulationParams), "SET_IMPACT_METRICS", "null"), "SET_ENVIRONMENTAL_DATA", "null"), "SET_ERROR", "null")
                      EXCEPT !.pageTab = "parameters"]
    /\ UNCHANGED <<nbody, impact, popCache, wizard, sweep, kepler, orbit, mitigation, simulator, nav>>

ContextInit == context = ContextStart

\* C26: while an impact request of the Simulation page is in flight the
\* loading flag of the context is true.
C26_LoadingWhileRequestInFlight ==
    context.inFlight > 0 => context.state.loading

\* The fields an action type is about.
OwnFields(type) ==
    CASE type = "SET_LOADING" -> {"loading"}
      [] type = "SET_ERROR" -> {"error"}
      [] type = "SET_SIMULATION_PARAMS" -> {"simulationParams"}
      [] type = "SET_IMPACT_METRICS" -> {"impactMetrics"}
      [] type = "SET_ENVIRONMENTAL_DATA" -> {"environmentalData"}
      [] type = "SET_SELECTED_ASTEROID" -> {"selectedAsteroid"}
      [] type = "SET_ASTEROID_LIST" -> {"asteroidList"}
      [] type = "SET_MITIGATION_SCENARIOS" -> {"mitigationScenarios"}
      [] type = "SET_SELECTED_MITIGATION_METHOD" -> {"selectedMitigationMethod"}
      [] type = "SET_ACTIVE_TAB" -> {"activeTab"}
      [] type = "SET_MAP_CENTER" -> {"mapCenter"}
      [] type = "SET_MAP_ZOOM" -> {"mapZoom"}
      [] type = "SET_3D_VISUALIZATION_STATE" -> {"showOrbit", "showEarth", "showAsteroid", "animationSpeed"}
      [] type = "RESET_SIMULATION" -> {"impactMetrics", "environmentalData", "error"}
      [] OTHER -> {}

\* C29: the last dispatched action left every field other than its own as
\* it was; RESET_SIMULATION left the three result fields null.
C29_ActionsChangeOnlyOwnFields ==
    /\ DOMAIN context.state = DOMAIN context.previous
    /\ \A k \in DOMAIN context.state \ OwnFields(context.last.type) : context.state[k] = context.previous[k]
    /\ context.last.type = "RESET_SIMULATION" =>
          /\ context.state.impactMetrics = "null"
          /\ context.state.environmentalData = "null"
          /\ context.state.error = "null"

InitContext ==
    /\ ContextInit
    /\ nbody = NBodyIdle
    /\ impact = ImpactIdle
    /\ popCache = CacheIdle
    /\ wizard = WizardIdle
    /\ sweep = SweepIdle
    /\ kepler = KeplerIdle
    /\ orbit = OrbitIdle
    /\ mitigation = MitigationIdle
    /\ simulator = SimulatorIdle
    /\ nav = NavIdle

NextContext == dispatch \/ pageRunSimulation \/ requestSucceeds \/ requestFails \/ pageResetSimulation

SpecContext == InitContext /\ [][NextContext]_vars

----------------------------------------------------------------------------
(* The steps of DeflectionWizard.jsx with what runs beside the user: the    *)
(* NASA search (one request, then a one-second timer to step 2) and the     *)
(* 1.5 s timer of runSimulation.  The numbers of the scenario are the       *)
(* business of the wizard specification above; here a result is kept by the *)
(* method it was computed with (the selectedMethod of the render in which   *)
(* Run was clicked).                                                        *)

\* Searches, advance timers and simulation timers that may be outstanding,
\* each kind by itself.
MaxPending == 1

\* useState: the component after its first render.
NavStart ==
    [pc |-> "mounted", currentStep |-> "1", selectedMethod |-> "null", loading |-> FALSE,
     simulationResults |-> "null", asteroid |-> "default",
     searches |-> 0, advanceTimers |-> <<>>, simulationTimers |-> <<>>, lastEvent |-> "none"]

\* A click that shows another step; an advance timer still pending was set
\* for a step that is no longer shown.
Navigated(n, step) == [n EXCEPT !.currentStep = step, !.advanceTimers = [k \in DOMAIN @ |-> [stale |-> TRUE]], !.lastEvent = "click"]

\* "Search NASA" with a name entered (the button is disabled while loading).
searchNASA ==
    /\ nav.pc = "mounted"
    /\ nav.currentStep = "1"
    /\ ~nav.loading
    /\ nav.searches < MaxPending
    /\ nav' = [nav EXCEPT !.loading = TRUE, !.searches = @ + 1, !.lastEvent = "click"]
    /\ UNCHANGED <<nbody, impact, popCache, wizard, sweep, kepler, orbit, mitigation, simulator, context>>

\* The search ends: with the asteroid loaded and the timer to step 2 set, or
\* with an error toast; setLoading(false) either way.
searchSettles ==
    /\ nav.pc = "mounted"
    /\ nav.searches > 0
    /\ \/ /\ Len(nav.advanceTimers) < MaxPending
          /\ nav' = [nav EXCEPT !.searches = @ - 1, !.loading = FALSE, !.asteroid = "nasa",
                                !.advanceTimers = Append(@, [stale |-> nav.currentStep # "1"]), !.lastEvent = "search"]
       \/ nav' = [nav EXCEPT !.searches = @ - 1, !.loading = FALSE, !.lastEvent = "search"]
    /\ UNCHANGED <<nbody, impact, popCache, wizard, sweep, kepler, orbit, mitigation, simulator, context>>

\* setTimeout(() => setCurrentStep(2), 1000) fires.
advanceTimerFires ==
    /\ nav.pc = "mounted"
    /\ nav.advanceTimers # <<>>
    /\ nav' = [nav EXCEPT !.currentStep = "2", !.advanceTimers = Tail(@), !.lastEvent = IF Head(nav.advanceTimers).stale THEN "staleAdvance" ELSE "advance"]
    /\ UNCHANGED <<nbody, impact, popCache, wizard, sweep, kepler, orbit, mitigation, simulator, context>>

\* The buttons that only set the step: Create Custom Scenario (1 to 2),
\* Back (2 to 1, 2.5 to 2, 3 to 2.5) and Next: Choose Method (2 to 2.5).
clickStepButton ==
    /\ nav.pc = "mounted"
    /\ \E step \in CASE nav.currentStep = "1" -> {"2"}
                     [] nav.currentStep = "2" -> {"1", "2.5"}
                     [] nav.currentStep = "2.5" -> {"2"}
                     [] nav.currentStep = "3" -> {"2.5"}
                     [] OTHER -> {} :
          nav' = Navigated(nav, step)
    /\ UNCHANGED <<nbody, impact, popCache, wizard, sweep, kepler, orbit, mitigation, simulator, context>>

\* A method card of step 2.5: setSelectedMethod and setCurrentStep(3).
clickMethodCard ==
    /\ nav.pc = "mounted"
    /\ nav.currentStep = "2.5"
    /\ \E method \in {"kinetic", "gravity"} :
          nav' = [Navigated(nav, "3") EXCEPT !.selectedMethod = method]
    /\ UNCHANGED <<nbody, impact, popCache, wizard, sweep, kepler, orbit, mitigation, simulator, context>>

\* Run Simulation on step 3: loading, step 4 and the 1.5 s timer.
clickRunSimulation ==
    /\ nav.pc = "mounted"
    /\ nav.currentStep = "3"
    /\ Len(nav.simulationTimers) < MaxPending
    /\ nav' = [Navigated(nav, "4") EXCEPT !.loading = TRUE, !.simulationTimers = Append(@, nav.selectedMethod)]
    /\ UNCHANGED <<nbody, impact, popCache, wizard, sweep, kepler, orbit, mitigation, simulator, context>>

\* The timer of runSimulation: the results of the method of its render.
simulationTimerFires ==
    /\ nav.pc = "mounted"
    /\ nav.simulationTimers # <<>>
    /\ nav' = [nav EXCEPT !.simulationResults = Head(nav.simulationTimers), !.loading = FALSE,
                          !.simulationTimers = Tail(@), !.lastEvent = "simulation"]
    /\ UNCHANGED <<nbody, impact, popCache, wizard, sweep, kepler, orbit, mitigation, simulator, context>>

\* Start New Simulation, shown on step 4 with results and not loading.
clickStartNewSimulation ==
    /\ nav.pc = "mounted"
    /\ nav.currentStep = "4" /\ ~nav.loading /\ nav.simulationResults # "null"
    /\ nav' = [Navigated(nav, "1") EXCEPT !.selectedMethod = "null", !.simulationResults = "null"]
    /\ UNCHANGED <<nbody, impact, popCache, wizard, sweep, kepler, orbit, mitigation, simulator, context>>

NavInit == nav = NavStart

\* C27: on step 4 the wizard is loading or holds results computed with the
\* selected method.
C27_StepFourNeverBlank ==
    nav.currentStep = "4" => (nav.loading \/ (nav.simulationResults # "null" /\ nav.simulationResults = nav.selectedMethod))

\* C28: the step changes only by a click on the step shown or by the advance
\* timer of a search, and that timer changes the step only if the wizard has
\* stayed on step 1 since the search succeeded.
C28_StepChangesOnlyByNavigation ==
    [][nav'.currentStep # nav.currentStep =>
          \/ nav'.lastEvent = "click"
          \/ nav'.lastEvent = "advance" /\ nav.currentStep = "1"]_vars

InitNav ==
    /\ NavInit
    /\ nbody = NBodyIdle
    /\ impact = ImpactIdle
    /\ popCache = CacheIdle
    /\ wizard = WizardIdle
    /\ sweep = SweepIdle
    /\ kepler = KeplerIdle
    /\ orbit = OrbitIdle
    /\ mitigation = MitigationIdle
    /\ simulator = SimulatorIdle
    /\ context = ContextIdle

NextNav == searchNASA \/ searchSettles \/ advanceTimerFires \/ clickStepButton \/ clickMethodCard \/ clickRunSimulation \/ simulationTimerFires \/ clickStartNewSimulation

SpecNav == InitNav /\ [][NextNav]_vars

====
